---- MODULE Spec2Model ----
(***************************************************************************)
(* Price to Hours Converter (browser extension).                           *)
(*                                                                         *)
(* The model covers the content script (content/content-script.js), the    *)
(* price detector (scripts/price-detector.js), the converter               *)
(* (scripts/converter.js), the storage helpers, the site classifier and    *)
(* the background service worker.  JavaScript runs handlers to completion  *)
(* on one thread, so every action below is the code that runs between two  *)
(* suspension points (an await on chrome.storage, a timer, a message).     *)
(*                                                                         *)
(* Texts are TLA+ strings.  Numbers are exact rationals [n, d] (n/d); with  *)
(* d = 0 the value is null / NaN (n = 0), Infinity (n = 1) or -Infinity    *)
(* (n = -1).                                                               *)
(***************************************************************************)
EXTENDS Integers, Sequences, FiniteSets, TLC

(***************************************************************************)
(* Strings                                                                 *)
(***************************************************************************)
Char(s, i) == SubSeq(s, i, i)

IsDigit(c) == c \in {"0", "1", "2", "3", "4", "5", "6", "7", "8", "9"}

IsSpace(c) == c \in {" ", "\t", "\n"}

IsCurrency(c) == c \in {"$", "€", "£", "¥"}

\* String.prototype.includes
Includes(s, sub) ==
    \E i \in 1..(Len(s) - Len(sub) + 1) : SubSeq(s, i, i + Len(sub) - 1) = sub

UpperLetters == <<"A", "B", "C", "D", "E", "F", "G", "H", "I", "J", "K", "L", "M",
                  "N", "O", "P", "Q", "R", "S", "T", "U", "V", "W", "X", "Y", "Z">>

LowerLetters == <<"a", "b", "c", "d", "e", "f", "g", "h", "i", "j", "k", "l", "m",
                  "n", "o", "p", "q", "r", "s", "t", "u", "v", "w", "x", "y", "z">>

LowerChar(c) ==
    IF \E k \in 1..26 : UpperLetters[k] = c
    THEN LowerLetters[CHOOSE k \in 1..26 : UpperLetters[k] = c]
    ELSE c

RECURSIVE toLowerCase(_)
toLowerCase(s) ==
    IF s = "" THEN "" ELSE LowerChar(Char(s, 1)) \o toLowerCase(SubSeq(s, 2, Len(s)))

RECURSIVE trimLeft(_)
trimLeft(s) ==
    IF s # "" /\ IsSpace(Char(s, 1)) THEN trimLeft(SubSeq(s, 2, Len(s))) ELSE s

RECURSIVE trimRight(_)
trimRight(s) ==
    IF s # "" /\ IsSpace(Char(s, Len(s))) THEN trimRight(SubSeq(s, 1, Len(s) - 1)) ELSE s

trim(s) == trimRight(trimLeft(s))

\* first position >= i of s that holds no white space
RECURSIVE SkipSpaces(_, _)
SkipSpaces(s, i) ==
    IF i <= Len(s) /\ IsSpace(Char(s, i)) THEN SkipSpaces(s, i + 1) ELSE i

\* first position >= i of s that holds no digit
RECURSIVE SkipDigits(_, _)
SkipDigits(s, i) ==
    IF i <= Len(s) /\ IsDigit(Char(s, i)) THEN SkipDigits(s, i + 1) ELSE i

\* /[\$€£¥]/.test(s)
HasCurrencySymbol(s) == \E i \in 1..Len(s) : IsCurrency(Char(s, i))

\* /\d+\s*(w1|w2|...)/i.test(s), for alternatives that all start with a letter
\* of `letters` which is itself one of the alternatives
DigitsThenLetter(s, letters) ==
    \E i \in 1..Len(s) :
        /\ IsDigit(Char(s, i))
        /\ LET j == SkipSpaces(s, i + 1)
           IN  j <= Len(s) /\ LowerChar(Char(s, j)) \in letters

(***************************************************************************)
(* Numbers: exact rationals; d = 0 is null / NaN or an infinity            *)
(***************************************************************************)
NULL == [n |-> 0, d |-> 0]

IsNull(x) == x.d = 0 /\ x.n = 0

Infinity == [n |-> 1, d |-> 0]

NegInfinity == [n |-> 0 - 1, d |-> 0]

IsFinite(x) == x.d > 0

RECURSIVE Gcd(_, _)
Gcd(a, b) == IF b = 0 THEN a ELSE Gcd(b, a % b)

Abs(a) == IF a < 0 THEN 0 - a ELSE a

Rat(n, d) ==
    LET g == Gcd(Abs(n), d) IN [n |-> n \div g, d |-> d \div g]

Whole(k) == [n |-> k, d |-> 1]

\* x < y and x <= y of JavaScript numbers: FALSE when either is NaN
Less(x, y) ==
    IF IsNull(x) \/ IsNull(y) THEN FALSE
    ELSE IF x.d = 0 /\ y.d = 0 THEN x.n < y.n
    ELSE x.n * y.d < y.n * x.d

Leq(x, y) ==
    IF IsNull(x) \/ IsNull(y) THEN FALSE
    ELSE IF x.d = 0 /\ y.d = 0 THEN x.n <= y.n
    ELSE x.n * y.d <= y.n * x.d

RECURSIVE Pow10(_)
Pow10(k) == IF k = 0 THEN 1 ELSE 10 * Pow10(k - 1)

RECURSIVE DigitsValue(_)
DigitsValue(s) ==
    IF s = "" THEN 0
    ELSE 10 * DigitsValue(SubSeq(s, 1, Len(s) - 1))
         + (CHOOSE v \in 0..9 : ToString(v) = Char(s, Len(s)))

\* parseFloat: optional sign, then "Infinity" or digits with an optional
\* fraction; NaN without a digit.  (No text that is parsed holds an exponent.)
Signed(neg, mag) == IF neg THEN [n |-> 0 - mag.n, d |-> mag.d] ELSE mag

\* ip, fp: the digits before and after the point
ParseParts(neg, ip, fp) ==
    IF ip = "" /\ fp = "" THEN NULL
    ELSE Signed(neg, Rat(DigitsValue(ip \o fp), Pow10(Len(fp))))

\* the digits of the fraction, when a point stands at i1
FractionDigits(s, i1) ==
    IF i1 <= Len(s) /\ Char(s, i1) = "."
    THEN SubSeq(s, i1 + 1, SkipDigits(s, i1 + 1) - 1)
    ELSE ""

\* i0: where the digits start; i1: where the integer part ends
ParseFrom(s, i0, i1) ==
    ParseParts(s # "" /\ Char(s, 1) = "-", SubSeq(s, i0, i1 - 1), FractionDigits(s, i1))

ParseAt(s, i0) == ParseFrom(s, i0, SkipDigits(s, i0))

ParseUnsigned(s, i0) ==
    IF Len(s) >= i0 + 7 /\ SubSeq(s, i0, i0 + 7) = "Infinity"
    THEN Signed(s # "" /\ Char(s, 1) = "-", Infinity)
    ELSE ParseAt(s, i0)

ParseTrimmed(s) ==
    ParseUnsigned(s, IF s # "" /\ Char(s, 1) \in {"-", "+"} THEN 2 ELSE 1)

parseFloat(str) == ParseTrimmed(trimLeft(str))

(***************************************************************************)
(* scripts/converter.js                                                    *)
(***************************************************************************)
\* x / y of JavaScript numbers, for x >= 0 and y > 0
Quotient(x, y) ==
    IF ~IsFinite(x) /\ ~IsFinite(y) THEN NULL
    ELSE IF ~IsFinite(y) THEN Whole(0)
    ELSE IF ~IsFinite(x) THEN x
    ELSE Rat(x.n * y.d, x.d * y.n)

\* the function without its test of the price's sign
DividesAnyPrice(price, hourlyWage) ==
    IF IsNull(price) \/ IsNull(hourlyWage) THEN NULL
    ELSE IF hourlyWage.n <= 0 THEN NULL
    ELSE IF ~IsFinite(price) THEN price
    ELSE Rat(price.n * hourlyWage.d, price.d * hourlyWage.n)

\* null and NaN are both NULL: neither passes the two tests for a number
calculateHours(price, hourlyWage) ==
    IF IsNull(price) \/ IsNull(hourlyWage) THEN NULL
    ELSE IF price.n < 0 \/ hourlyWage.n <= 0 THEN NULL
    ELSE Quotient(price, hourlyWage)

\* hours * 2 cut off instead of rounded
HalfHoursDown(hours) == (2 * hours.n) \div hours.d

\* Math.round(hours * 2): floor(hours * 2 + 1/2)
HalfHours(hours) == (4 * hours.n + hours.d) \div (2 * hours.d)

formatHours(hours) ==
    IF IsNull(hours) \/ hours.n < 0 THEN "N/A"
    ELSE IF ~IsFinite(hours) THEN "Infinityh"
    ELSE LET k == HalfHours(hours)
         IN  IF k = 0 THEN "< 0.5h"
             ELSE IF k % 2 = 0 THEN ToString(k \div 2) \o "h"
             ELSE ToString(k \div 2) \o ".5h"

convertPricesToHours(prices, hourlyWage) ==
    [i \in 1..Len(prices) |->
        LET hours == calculateHours(prices[i], hourlyWage)
        IN  [price |-> prices[i], hours |-> hours, formatted |-> formatHours(hours)]]

\* tierSettings of getTierColor: has is FALSE for null / undefined
NoTierSettings == [has |-> FALSE, type |-> "", green |-> NULL, yellow |-> NULL,
                   red |-> NULL]

TierSettings(type, green, yellow, red) ==
    [has |-> TRUE, type |-> type, green |-> green, yellow |-> yellow, red |-> red]

\* value === 0
IsZero(x) == IsFinite(x) /\ x.n = 0

\* the classification without the case of two zeros
WithoutZeroCase(value, tierSettings) ==
    IF ~tierSettings.has \/ IsNull(value) THEN "yellow"
    ELSE IF Less(value, tierSettings.green) THEN "green"
    ELSE IF Leq(tierSettings.green, value) /\ Leq(value, tierSettings.yellow)
         THEN "yellow"
    ELSE IF Less(tierSettings.yellow, value) THEN "red"
    ELSE "yellow"

\* the classification that takes everything up to yellow for yellow
YellowUpToYellow(value, tierSettings) ==
    IF ~tierSettings.has \/ IsNull(value) THEN "yellow"
    ELSE IF IsZero(tierSettings.green) /\ IsZero(value) THEN "green"
    ELSE IF Leq(value, tierSettings.yellow) THEN "yellow"
    ELSE IF Less(tierSettings.yellow, value) THEN "red"
    ELSE "yellow"

\* the classification that takes red from the red threshold on
RedFromRed(value, tierSettings) ==
    IF ~tierSettings.has \/ IsNull(value) THEN "yellow"
    ELSE IF IsZero(tierSettings.green) /\ IsZero(value) THEN "green"
    ELSE IF Less(value, tierSettings.green) THEN "green"
    ELSE IF Leq(tierSettings.red, value) THEN "red"
    ELSE "yellow"

getTierColor(value, tierSettings) ==
    IF ~tierSettings.has \/ IsNull(value) THEN "yellow"
    ELSE IF IsZero(tierSettings.green) /\ IsZero(value) THEN "green"
    ELSE IF Less(value, tierSettings.green) THEN "green"
    ELSE IF Leq(tierSettings.green, value) /\ Leq(value, tierSettings.yellow)
         THEN "yellow"
    ELSE IF Less(tierSettings.yellow, value) THEN "red"
    ELSE "yellow"

(***************************************************************************)
(* scripts/price-detector.js: the parts that read text only                *)
(***************************************************************************)
TIME_KEYWORDS == {"remaining", "left", "until", "expires", "ends", "deal",
                  "duration", "countdown", "timer"}

\* TIME_PATTERNS: each of the first four matches as soon as digits, optional
\* white space and the first letter of its unit are found; the fifth is a
\* keyword search, all case-insensitive
TIME_PATTERNS(text) ==
    \/ DigitsThenLetter(text, {"h"})
    \/ DigitsThenLetter(text, {"m"})
    \/ DigitsThenLetter(text, {"s"})
    \/ DigitsThenLetter(text, {"d"})
    \/ \E w \in {"remaining", "left", "until", "expire", "end"} :
           Includes(toLowerCase(text), w)

\* the check that looks for the keywords only
KeywordsOnly(text) ==
    /\ text # ""
    /\ \E keyword \in TIME_KEYWORDS : Includes(toLowerCase(text), keyword)

isTimeValue(text) ==
    /\ text # ""
    /\ \/ TIME_PATTERNS(text)
       \/ \E keyword \in TIME_KEYWORDS : Includes(toLowerCase(text), keyword)
       \/ LET t == trim(text)
              i == SkipDigits(t, 1)
              j == SkipSpaces(t, i)
          IN  /\ i > 1
              /\ j <= Len(t)
              /\ Char(t, j) \in {"h", "m", "s"}
              /\ ~HasCurrencySymbol(text)

IsSeparator(c) == c \in {".", ","}

\* end (exclusive) of the longest run ([.,]\d{3})* that starts at i
RECURSIVE SkipGroups(_, _)
SkipGroups(s, i) ==
    IF /\ i + 3 <= Len(s)
       /\ IsSeparator(Char(s, i))
       /\ \A k \in 1..3 : IsDigit(Char(s, i + k))
    THEN SkipGroups(s, i + 4)
    ELSE i

\* PRICE_PATTERN anchored at position i: 0 when there is no match at i, else
\* the position after the match.  Every part after the first digit is
\* optional, so the greedy choice is the match.
PriceMatchEnd(s, i) ==
    IF ~(i <= Len(s) /\ IsCurrency(Char(s, i))) THEN 0
    ELSE LET j  == SkipSpaces(s, i + 1)
             d3 == SkipDigits(s, j)
             k  == IF d3 > j + 3 THEN j + 3 ELSE d3
             g  == SkipGroups(s, k)
             e  == IF /\ g + 2 <= Len(s)
                      /\ IsSeparator(Char(s, g))
                      /\ IsDigit(Char(s, g + 1))
                      /\ IsDigit(Char(s, g + 2))
                   THEN g + 3 ELSE g
         IN  IF k = j THEN 0 ELSE e

\* text.match(PRICE_PATTERN) with the g flag: the matches from position i on
RECURSIVE PriceMatches(_, _)
PriceMatches(s, i) ==
    IF i > Len(s) THEN <<>>
    ELSE LET e == PriceMatchEnd(s, i)
         IN  IF e = 0 THEN PriceMatches(s, i + 1)
             ELSE <<SubSeq(s, i, e - 1)>> \o PriceMatches(s, e)

\* priceText.trim().replace(/[\$€£¥,\s]/g, "")
RECURSIVE StripPriceChars(_)
StripPriceChars(s) ==
    IF s = "" THEN ""
    ELSE LET c == Char(s, 1)
             r == StripPriceChars(SubSeq(s, 2, Len(s)))
         IN  IF IsCurrency(c) \/ c = "," \/ IsSpace(c) THEN r ELSE c \o r

\* cleaned.replace(/\.(?=\d{3})/g, ""): a dot that three digits follow goes
RECURSIVE StripThousandsDots(_)
StripThousandsDots(s) ==
    IF s = "" THEN ""
    ELSE LET c == Char(s, 1)
             r == StripThousandsDots(SubSeq(s, 2, Len(s)))
         IN  IF /\ c = "."
                /\ Len(s) >= 4
                /\ \A k \in 2..4 : IsDigit(Char(s, k))
             THEN r ELSE c \o r

\* .replace(",", "."): the first comma becomes a dot
ReplaceFirstComma(s) ==
    IF \E i \in 1..Len(s) : Char(s, i) = ","
    THEN LET i == CHOOSE i \in 1..Len(s) :
                      Char(s, i) = "," /\ \A j \in 1..(i - 1) : Char(s, j) # ","
         IN  SubSeq(s, 1, i - 1) \o "." \o SubSeq(s, i + 1, Len(s))
    ELSE s

\* /price|Price|cost|amount|value/i
MatchesPriceWord(s) ==
    \E w \in {"price", "cost", "amount", "value"} : Includes(toLowerCase(s), w)

(***************************************************************************)
(* The document.                                                           *)
(*                                                                         *)
(* A page is a tree of element slots 1..NSlots under body (slot 0), in     *)
(* document order (a parent has a smaller number than its children).  What *)
(* the host page wrote is in `page` and never changes; what scripts change *)
(* is in `dom`.  An element that leaves the document never comes back: a   *)
(* slot filled again holds a new element, and every reference to the old   *)
(* one is marked not live.                                                 *)
(***************************************************************************)
NoAttr == "(no attribute)"

NoStyle == [backgroundColor |-> "", padding |-> "", borderRadius |-> "",
            display |-> "", marginLeft |-> ""]

\* initial: the element is in the page when the content script starts;
\* dynamic: the host page's own script adds and removes it
Element(parent, tag, className, dataPrice, text, initial, dynamic) ==
    [parent |-> parent, tag |-> tag, className |-> className, id |-> "",
     dataPrice |-> dataPrice, dataTestid |-> "", dataAColor |-> "",
     ariaHidden |-> "", role |-> "", text |-> text,
     computedDisplay |-> IF tag = "div" THEN "block" ELSE "inline",
     title |-> NoAttr, style |-> NoStyle, initial |-> initial,
     dynamic |-> dynamic]

\* <div><span class="price">$40</span></div>, and a second price that the
\* host page adds to body later
PageWrapped ==
    <<Element(0, "div", "", FALSE, "", TRUE, FALSE),
      Element(1, "span", "price", FALSE, "$40", TRUE, FALSE),
      Element(0, "span", "price", FALSE, "$60", FALSE, TRUE)>>

\* <div class="price-box"><span data-price>$40</span><span data-price>$60</span></div>
PageBox ==
    <<Element(0, "div", "price-box", FALSE, "", TRUE, FALSE),
      Element(1, "span", "", TRUE, "$40", TRUE, FALSE),
      Element(1, "span", "", TRUE, "$60", TRUE, TRUE)>>

\* <div><span>New</span></div><span class="price">$60</span>, where the host
\* page removes the price later
PageLone ==
    <<Element(0, "div", "", FALSE, "", TRUE, FALSE),
      Element(1, "span", "", FALSE, "New", TRUE, FALSE),
      Element(0, "span", "price", FALSE, "$60", TRUE, TRUE)>>

\* Pages the detector is applied to on its own.
\* <span>99</span><span class="price">99</span><span class="cost">99</span>
PageClasses ==
    <<Element(0, "span", "", FALSE, "99", TRUE, FALSE),
      Element(0, "span", "price", FALSE, "99", TRUE, FALSE),
      Element(0, "span", "cost", FALSE, "99", TRUE, FALSE)>>

\* <span data-price>$0.00</span><span id="item-amount">Free: $0</span>
\* <span id="price-main">$1,234.56</span>
PageIds ==
    <<Element(0, "span", "", TRUE, "$0.00", TRUE, FALSE),
      [Element(0, "span", "", FALSE, "Free: $0", TRUE, FALSE) EXCEPT !.id = "item-amount"],
      [Element(0, "span", "", FALSE, "$1,234.56", TRUE, FALSE) EXCEPT !.id = "price-main"]>>

\* <nav><span class="price">2h 30m</span><span>$5 2h</span></nav>
PageNav ==
    <<Element(0, "nav", "", FALSE, "", TRUE, FALSE),
      Element(1, "span", "price", FALSE, "2h 30m", TRUE, FALSE),
      Element(1, "span", "", FALSE, "$5 2h", TRUE, FALSE)>>

\* <div class="sidebar"><span class="price">$25</span><span>30 seconds</span></div>
PageSidebar ==
    <<Element(0, "div", "sidebar", FALSE, "", TRUE, FALSE),
      Element(1, "span", "price", FALSE, "$25", TRUE, FALSE),
      Element(1, "span", "", FALSE, "30 seconds", TRUE, FALSE)>>

\* <aside><span data-price>2h 30m</span><span>Menu</span></aside>
PageAside ==
    <<Element(0, "aside", "", FALSE, "", TRUE, FALSE),
      Element(1, "span", "", TRUE, "2h 30m", TRUE, FALSE),
      Element(1, "span", "", FALSE, "Menu", TRUE, FALSE)>>

\* <div class="price-box"><span class="deal-timer">$5</span></div>
\* <span class="price sr-only">$7</span>
PageDeal ==
    <<Element(0, "div", "price-box", FALSE, "", TRUE, FALSE),
      Element(1, "span", "deal-timer", FALSE, "$5", TRUE, FALSE),
      Element(0, "span", "price sr-only", FALSE, "$7", TRUE, FALSE)>>

\* the pages that are followed have as many elements
NSlots == Len(PageBox)

Slots == 1..NSlots

VARIABLES
    load,             \* the page that is loaded, and its address
    dom,              \* slot -> the element's state in the live document
    storage,          \* chrome.storage.local
    detectedPrices,   \* content script globals
    conversions,
    isActive,
    injectedBadges,
    replacedPrices,
    stylesInjected,
    displayMode,
    showHours,
    tasks,            \* suspended async calls of the content script
    observers,        \* MutationObservers installed on document.body
    timers,           \* pending setTimeout timers of the content script
    burst,            \* qualifying mutation batches the pending timer stands for
    inbox,            \* messages the service worker sent to the tab, in flight
    lastResponse,     \* the last answer a message handler gave
    events,           \* requests to the extension and host page changes so far
    passSteps,        \* steps of full side-by-side passes made in a row, alone,
                      \* from the page as the host wrote it
    deactivated,      \* setActive(false) has been handled, and no
                      \* setActive(true) since
    tierSettings,     \* chrome.storage.local, key tierSettings
    tierInputs,       \* the popup's tier radio buttons and input fields
    call              \* a function of the converter or the classifier, applied

vars == <<load, dom, storage, detectedPrices, conversions, isActive,
          injectedBadges, replacedPrices, stylesInjected, displayMode, showHours,
          tasks, observers, timers, burst, inbox, lastResponse, events,
          passSteps, deactivated, tierSettings, tierInputs, call>>

ShopUrl == [valid |-> TRUE, hostname |-> "www.amazon.com", pathname |-> "/dp/X"]

NewsUrl == [valid |-> TRUE, hostname |-> "news.example.com", pathname |-> "/article"]

\* the page loads that are followed
Loads == {"wrapped, shop", "box, shop", "box, news", "lone, shop"}

\* the pages for the detector alone
SampleLoads == {"classes", "ids", "nav", "sidebar", "aside", "deal"}

\* slot -> the element the host page wrote there
page ==
    CASE load = "wrapped, shop" -> PageWrapped
      [] load = "lone, shop" -> PageLone
      [] load = "classes" -> PageClasses
      [] load = "ids" -> PageIds
      [] load = "nav" -> PageNav
      [] load = "sidebar" -> PageSidebar
      [] load = "aside" -> PageAside
      [] load = "deal" -> PageDeal
      [] OTHER -> PageBox

\* window.location.href
url == IF load = "box, news" THEN NewsUrl ELSE ShopUrl

NoResponse == [from |-> "none", success |-> TRUE]

Children(s) == {c \in Slots : page[c].parent = s}

RECURSIVE Ancestors(_)
Ancestors(s) ==
    IF page[s].parent = 0 THEN {} ELSE {page[s].parent} \cup Ancestors(page[s].parent)

Descendants(s) == {c \in Slots : s \in Ancestors(c)}

\* document.body.contains(element), for a live reference to slot s
Attached(D, s) == D[s].present

\* the texts of a sequence of badges, joined
RECURSIVE BadgeTexts(_)
BadgeTexts(bs) == IF bs = <<>> THEN "" ELSE Head(bs) \o BadgeTexts(Tail(bs))

\* element.textContent; the badges that follow a child are part of the
\* parent's text
RECURSIVE textContent(_, _)
RECURSIVE ChildrenText(_, _, _)
textContent(D, s) ==
    IF D[s].over THEN D[s].overText
    ELSE page[s].text \o ChildrenText(D, s, 1)

ChildrenText(D, s, c) ==
    IF c > NSlots THEN ""
    ELSE IF page[c].parent # s THEN ChildrenText(D, s, c + 1)
    ELSE (IF D[c].present THEN textContent(D, c) ELSE "")
         \o BadgeTexts(D[c].badges) \o ChildrenText(D, s, c + 1)

\* a class name holds the class token tok
HasClass(s, tok) ==
    LET cn == " " \o page[s].className \o " "
    IN  Includes(cn, " " \o tok \o " ")

ClassLower(s) == toLowerCase(page[s].className)

IdLower(s) == toLowerCase(page[s].id)

\* classes and attribute that mark an element as hidden or as a container
IsHiddenOrContainer(s) ==
    \/ Includes(ClassLower(s), "offscreen")
    \/ Includes(ClassLower(s), "sr-only")
    \/ Includes(ClassLower(s), "visually-hidden")
    \/ page[s].ariaHidden = "true"
    \/ Includes(ClassLower(s), "pricetopay")

\* element.closest("nav, aside, [role='navigation'], [class*='sidebar'],
\*                  [class*='nav'], [id*='sidebar'], [id*='nav']") !== null
InSidebar(s) ==
    \E a \in {s} \cup Ancestors(s) :
        \/ page[a].tag \in {"nav", "aside"}
        \/ page[a].role = "navigation"
        \/ Includes(page[a].className, "sidebar")
        \/ Includes(page[a].className, "nav")
        \/ Includes(page[a].id, "sidebar")
        \/ Includes(page[a].id, "nav")

HasPriceIndicator(s) ==
    \/ Includes(ClassLower(s), "price")
    \/ Includes(IdLower(s), "price")
    \/ page[s].dataPrice

excludePatterns == {"time", "timer", "countdown", "duration", "deal", "remaining",
                    "expires", "ends"}

\* No slot is a badge or lies inside one: badges hold text only.
isPriceElement(D, s) ==
    LET text == toLowerCase(textContent(D, s)) IN
    /\ ~IsHiddenOrContainer(s)
    /\ \A pattern \in excludePatterns :
          (\/ Includes(ClassLower(s), pattern)
           \/ Includes(IdLower(s), pattern)
           \/ Includes(text, pattern)) => HasPriceIndicator(s)
    /\ InSidebar(s) => ~isTimeValue(text)

TenMillion == Whole(10000000)

\* the checks without the ceiling of ten million
WithoutCeiling(price, hasCurrency, element) ==
    IF IsNull(price) \/ price.n < 0 THEN NULL
    ELSE IF /\ Less(price, Rat(1, 100)) \/ Less(Whole(100000), price)
            /\ ~hasCurrency
            /\ IF element = 0 THEN TRUE
               ELSE /\ ~Includes(ClassLower(element), "price")
                    /\ ~Includes(IdLower(element), "price")
    THEN NULL
    ELSE price

\* the checks of parsePrice on the number that parseFloat gave
ValidatePrice(price, hasCurrency, element) ==
    IF IsNull(price) \/ price.n < 0 \/ Less(TenMillion, price) THEN NULL
    ELSE IF /\ Less(price, Rat(1, 100)) \/ Less(Whole(100000), price)
            /\ ~hasCurrency
            /\ IF element = 0 THEN TRUE
               ELSE /\ ~Includes(ClassLower(element), "price")
                    /\ ~Includes(IdLower(element), "price")
    THEN NULL
    ELSE price

\* the price text must show a currency symbol, or the element a price
\* indicator
LacksPriceContext(hasCurrency, element) ==
    /\ ~hasCurrency
    /\ element # 0
    /\ ~MatchesPriceWord(page[element].className)
    /\ ~MatchesPriceWord(page[element].id)
    /\ ~page[element].dataPrice

\* priceText cleaned and normalized, as parseFloat gets it
NormalizePrice(priceText) ==
    ReplaceFirstComma(StripThousandsDots(StripPriceChars(trim(priceText))))

ParseWithCurrency(priceText, hasCurrency, element) ==
    IF LacksPriceContext(hasCurrency, element) THEN NULL
    ELSE ValidatePrice(parseFloat(NormalizePrice(priceText)), hasCurrency, element)

\* parsePrice(priceText, element); element 0 is "no element"
parsePrice(priceText, D, element) ==
    IF priceText = "" THEN NULL
    ELSE IF isTimeValue(priceText) THEN NULL
    ELSE IF element # 0 /\ ~isPriceElement(D, element) THEN NULL
    ELSE ParseWithCurrency(priceText, HasCurrencySymbol(priceText), element)

\* an ancestor of s holds the class token tok (the descendant combinator)
InsideClass(s, tok) == \E a \in Ancestors(s) : HasClass(a, tok)

NSelectors == 21

\* PRICE_SELECTORS[k] matches the element of slot s.  Badges match the first
\* selector too; detectPrices skips them before anything else.
PRICE_SELECTORS(k, s) ==
    CASE k = 1  -> Includes(page[s].className, "price")
      [] k = 2  -> Includes(page[s].className, "Price")
      [] k = 3  -> Includes(page[s].id, "price")
      [] k = 4  -> Includes(page[s].id, "Price")
      [] k = 5  -> page[s].dataPrice
      [] k = 6  -> Includes(page[s].dataTestid, "price")
      [] k = 7  -> HasClass(s, "a-price-whole")
      [] k = 8  -> HasClass(s, "a-offscreen") /\ InsideClass(s, "a-price")
      [] k = 9  -> page[s].dataAColor = "price"
      [] k = 10 -> HasClass(s, "a-price-symbol")
      [] k = 11 -> HasClass(s, "a-price-whole") /\ InsideClass(s, "a-price")
      [] k = 12 -> HasClass(s, "a-price-whole") /\ InsideClass(s, "a-price-range")
      [] k = 13 -> /\ Includes(page[s].className, "deal")
                   /\ ~Includes(page[s].className, "time")
                   /\ ~Includes(page[s].className, "timer")
                   /\ ~Includes(page[s].className, "countdown")
      [] k = 14 -> HasClass(s, "notranslate")
      [] k = 15 -> page[s].id = "prcIsum"
      [] k = 16 -> HasClass(s, "currency-value")
      [] k = 17 -> HasClass(s, "product-price")
      [] k = 18 -> HasClass(s, "item-price")
      [] k = 19 -> HasClass(s, "cost")
      [] k = 20 -> HasClass(s, "amount")
      [] k = 21 -> HasClass(s, "value")

\* no two elements are one
NeverSame(a, b) == FALSE

\* the identity of DOM elements, by which the Set and the Map of
\* detectPrices tell their keys apart
SameElement(a, b) == a = b

\* foundElements, for the candidates pushed so far
FoundElements(prices) ==
    {s \in Slots : \E i \in 1..Len(prices) : SameElement(prices[i].element, s)}

IsCandidatePrice(price) == ~IsNull(price) /\ price.n > 0

\* a candidate of detectedPrices; live: the element is the one in the slot
Candidate(element, price, text) ==
    [element |-> element, live |-> TRUE, price |-> price, originalText |-> trim(text)]

AddIfPrice(prices, element, price, text) ==
    IF IsCandidatePrice(price) THEN Append(prices, Candidate(element, price, text))
    ELSE prices

\* the body of Method 1's inner loop for an element with this text
SelectorVisitText(D, element, prices, text) ==
    IF /\ element \notin FoundElements(prices)
       /\ ~IsHiddenOrContainer(element)
       /\ isPriceElement(D, element)
       /\ ~isTimeValue(text)
    THEN AddIfPrice(prices, element, parsePrice(text, D, element), text)
    ELSE prices

\* selector sel, tried on the element of a slot
SelectorVisit(D, sel, element, prices) ==
    IF Attached(D, element) /\ PRICE_SELECTORS(sel, element)
    THEN SelectorVisitText(D, element, prices, textContent(D, element))
    ELSE prices

\* Method 1 of detectPrices: selector by selector, each in document order.
\* k runs over the (selector, slot) pairs.  When every slot is found nothing
\* can be added.
RECURSIVE SelectorScan(_, _, _)
SelectorScan(D, k, prices) ==
    IF Len(prices) = NSlots \/ k > NSelectors * NSlots THEN prices
    ELSE SelectorScan(D, k + 1,
             SelectorVisit(D, ((k - 1) \div NSlots) + 1, ((k - 1) % NSlots) + 1, prices))

\* The text nodes under slot s and the badges that follow it, in document
\* order.  parent is the element that holds the node; a badge's text node
\* is held by the badge, which isPriceElement rejects, so its walk starts at
\* the badge's parent.
RECURSIVE TextNodes(_, _)
RECURSIVE ChildrenNodes(_, _, _)
RECURSIVE BadgeNodes(_, _)
TextNodes(D, s) ==
    (IF ~D[s].present THEN <<>>
     ELSE IF D[s].over THEN <<[text |-> D[s].overText, parent |-> s]>>
     ELSE (IF page[s].text = "" THEN <<>>
           ELSE <<[text |-> page[s].text, parent |-> s]>>)
          \o ChildrenNodes(D, s, 1))
    \o BadgeNodes(D[s].badges, page[s].parent)

ChildrenNodes(D, s, c) ==
    IF c > NSlots THEN <<>>
    ELSE (IF page[c].parent = s THEN TextNodes(D, c) ELSE <<>>)
         \o ChildrenNodes(D, s, c + 1)

BadgeNodes(bs, parent) ==
    IF bs = <<>> THEN <<>>
    ELSE <<[text |-> Head(bs), parent |-> parent]>> \o BadgeNodes(Tail(bs), parent)

\* the walk that takes the first element that is not found yet, whatever
\* element it is
WalkPriceAnywhere(D, prices, match, parent) ==
    IF parent \notin FoundElements(prices) THEN parsePrice(match, D, 0) ELSE NULL

\* what the walk up finds at one element: NULL when the element is passed
WalkPrice(D, prices, match, parent) ==
    IF parent \notin FoundElements(prices) /\ isPriceElement(D, parent)
    THEN parsePrice(match, D, parent)
    ELSE NULL

\* the walk up from a text node's parent for one regex match: the first
\* element that is not found yet, passes isPriceElement and parses
RECURSIVE WalkUp(_, _, _, _)
RECURSIVE WalkStep(_, _, _, _, _)
WalkUp(D, prices, match, parent) ==
    IF parent = 0 THEN prices
    ELSE WalkStep(D, prices, match, parent, WalkPrice(D, prices, match, parent))

\* price: what the walk found at parent
WalkStep(D, prices, match, parent, price) ==
    IF IsCandidatePrice(price) THEN Append(prices, Candidate(parent, price, match))
    ELSE WalkUp(D, prices, match, page[parent].parent)

RECURSIVE MatchesScan(_, _, _, _)
MatchesScan(D, prices, matches, parent) ==
    IF matches = <<>> THEN prices
    ELSE MatchesScan(D, WalkUp(D, prices, Head(matches), parent), Tail(matches), parent)

\* Method 2 of detectPrices: every text node under body, in document order
RECURSIVE TextScan(_, _, _)
TextScan(D, nodes, prices) ==
    IF nodes = <<>> THEN prices
    ELSE LET node == Head(nodes)
         IN  TextScan(D, Tail(nodes),
                 IF isTimeValue(node.text) THEN prices
                 ELSE MatchesScan(D, prices, PriceMatches(node.text, 1), node.parent))

\* the Map keeps a key at the place of its first entry
FirstEntry(prices, i) ==
    \A j \in 1..(i - 1) : ~SameElement(prices[j].element, prices[i].element)

\* and with the value of its last one
LastWrite(prices, i) ==
    LET same == {j \in i..Len(prices) :
                    j = i \/ SameElement(prices[j].element, prices[i].element)}
    IN  prices[CHOOSE j \in same : \A k \in same : k <= j]

\* Array.from(new Map(prices.map((p) => [p.element, p])).values()), from
\* entry i on
RECURSIVE uniquePrices(_, _)
uniquePrices(prices, i) ==
    IF i > Len(prices) THEN <<>>
    ELSE (IF FirstEntry(prices, i) THEN <<LastWrite(prices, i)>> ELSE <<>>)
         \o uniquePrices(prices, i + 1)

detectPrices(D) ==
    uniquePrices(TextScan(D, ChildrenNodes(D, 0, 1), SelectorScan(D, 1, <<>>)), 1)

(***************************************************************************)
(* Element state                                                           *)
(***************************************************************************)
NoNumber == [has |-> FALSE, v |-> NULL]

NumberAttr(x) == [has |-> TRUE, v |-> x]

\* the attributes this extension writes, all absent
NoToolAttrs == [detected |-> NoAttr, priceValue |-> NoNumber, priceIndex |-> 0 - 1,
                hoursValue |-> NoNumber, hoursFormatted |-> NoAttr,
                replaced |-> NoAttr]

\* the element of slot s as the host page wrote it
PristineElement(s) ==
    [present |-> TRUE, over |-> FALSE, overText |-> "", attrs |-> NoToolAttrs,
     title |-> page[s].title, style |-> page[s].style, badges |-> <<>>]

\* a slot without element; bs are the badges left behind after it
EmptySlot(bs) ==
    [present |-> FALSE, over |-> FALSE, overText |-> "", attrs |-> NoToolAttrs,
     title |-> NoAttr, style |-> NoStyle, badges |-> bs]

\* The state the operations of the content script work on.  mutated says
\* that the operation added nodes for which the MutationObserver callback
\* sets shouldReprocess.
World == [dom |-> dom, detectedPrices |-> detectedPrices,
          injectedBadges |-> injectedBadges, replacedPrices |-> replacedPrices,
          mutated |-> FALSE]

\* the elements of the slots in S have left the document
KillRefs(W, S) ==
    [W EXCEPT
       !.detectedPrices =
           [i \in 1..Len(@) |-> IF @[i].element \in S THEN [@[i] EXCEPT !.live = FALSE]
                                ELSE @[i]],
       !.injectedBadges =
           {IF b.element \in S THEN [b EXCEPT !.live = FALSE] ELSE b : b \in @},
       !.replacedPrices =
           [i \in 1..Len(@) |-> IF @[i].element \in S THEN [@[i] EXCEPT !.live = FALSE]
                                ELSE @[i]]]

Ref(element) == [element |-> element, live |-> TRUE]

\* replacedPrices.has(element), for an element in the document
HasReplaced(W, element) ==
    \E i \in 1..Len(W.replacedPrices) :
        W.replacedPrices[i].element = element /\ W.replacedPrices[i].live

GetReplaced(W, element) ==
    LET i == CHOOSE i \in 1..Len(W.replacedPrices) :
                 W.replacedPrices[i].element = element /\ W.replacedPrices[i].live
    IN  W.replacedPrices[i].original

\* element.innerHTML: the element's own content and its descendants, with
\* every attribute, style and badge they hold
innerHTML(D, element) ==
    [over |-> D[element].over, overText |-> D[element].overText,
     sub |-> [c \in Descendants(element) |-> D[c]]]

(***************************************************************************)
(* content/content-script.js: presentation                                 *)
(***************************************************************************)
\* createBadge: a span of class price-hours-badge.  Its aria-label and title
\* are functions of its text, its font styles copies of the price
\* element's, so the text stands for the badge.
createBadge(hoursFormatted, priceElement) == hoursFormatted

storeOriginalPrice(W, element) ==
    IF HasReplaced(W, element) THEN W
    ELSE LET e == W.dom[element]
             originalData ==
                 [textContent     |-> textContent(W.dom, element),
                  innerHTML       |-> innerHTML(W.dom, element),
                  backgroundColor |-> e.style.backgroundColor,
                  padding         |-> e.style.padding,
                  borderRadius    |-> e.style.borderRadius,
                  display         |-> IF e.style.display # "" THEN e.style.display
                                      ELSE page[element].computedDisplay]
         IN  [W EXCEPT !.replacedPrices =
                 Append(@, [element |-> element, live |-> TRUE,
                            original |-> originalData])]

\* element.textContent = text: every child node goes, one text node comes
SetTextContent(W, element, text) ==
    LET gone == Descendants(element)
        W1   == KillRefs(W, gone)
    IN  [W1 EXCEPT !.dom =
            [s \in Slots |->
                IF s = element THEN [@[s] EXCEPT !.over = TRUE, !.overText = text]
                ELSE IF s \in gone THEN EmptySlot(<<>>)
                ELSE @[s]]]

\* replacePriceWithHours after storeOriginalPrice: W holds the snapshot
ReplaceStored(W, element, hoursFormatted) ==
    [SetTextContent(W, element, hoursFormatted) EXCEPT
       !.dom[element].style =
           [backgroundColor |-> "#fef3c7", padding |-> "2px 6px",
            borderRadius |-> "4px", display |-> "inline-block",
            marginLeft |-> "0"],
       !.dom[element].attrs.replaced = "true",
       !.dom[element].title =
           "Original price: " \o GetReplaced(W, element).textContent
               \o " | Work hours: " \o hoursFormatted]

replacePriceWithHours(W, element, hoursFormatted) ==
    ReplaceStored(storeOriginalPrice(W, element), element, hoursFormatted)

\* hasPriceIndicator of the MutationObserver callback, for the element that
\* innerHTML creates at slot c from the snapshot html: a descendant with
\* "price" in its class (a badge is one), a descendant with data-price, or a
\* currency symbol before a digit in the text
RECURSIVE CurrencyThenDigit(_, _)
CurrencyThenDigit(s, i) ==
    IF i > Len(s) THEN FALSE
    ELSE IF IsCurrency(Char(s, i))
            /\ LET j == SkipSpaces(s, i + 1) IN j <= Len(s) /\ IsDigit(Char(s, j))
         THEN TRUE
         ELSE CurrencyThenDigit(s, i + 1)

hasPriceIndicator(D, c) ==
    \/ \E x \in Descendants(c) :
          \/ D[x].present /\ (Includes(page[x].className, "price") \/ page[x].dataPrice)
          \/ D[x].badges # <<>>
    \/ CurrencyThenDigit(textContent(D, c), 1)

\* the document after element.innerHTML = original.innerHTML and the
\* restoring of the styles
RestoredDom(D, element, original) ==
    [s \in Slots |->
        IF s = element
        THEN [D[s] EXCEPT
                !.over = original.innerHTML.over,
                !.overText = original.innerHTML.overText,
                !.style.backgroundColor = original.backgroundColor,
                !.style.padding = original.padding,
                !.style.borderRadius = original.borderRadius,
                !.style.display = original.display,
                !.attrs.replaced = NoAttr,
                !.title = NoAttr]
        ELSE IF s \in Descendants(element) THEN original.innerHTML.sub[s]
        ELSE D[s]]

\* D1: the document with the restored element
Restored(W, element, D1) ==
    [W EXCEPT
       !.dom = D1,
       !.mutated = @ \/ \E c \in Children(element) :
                            D1[c].present /\ hasPriceIndicator(D1, c)]

restoreOriginalPrice(W, element) ==
    IF ~HasReplaced(W, element) THEN W
    ELSE Restored(KillRefs(W, Descendants(element)), element,
                  RestoredDom(W.dom, element, GetReplaced(W, element)))

\* A badge in the document is named by the slot it follows (0: no badge);
\* it is the first of that slot's badges.
\* container.querySelector(".price-hours-badge"): the first badge inside the
\* element of slot s, in document order, looking at its children from c on
RECURSIVE FirstBadgeIn(_, _, _)
FirstBadgeIn(D, s, c) ==
    IF c > NSlots THEN 0
    ELSE IF page[c].parent # s THEN FirstBadgeIn(D, s, c + 1)
    ELSE LET inside == IF D[c].present THEN FirstBadgeIn(D, c, 1) ELSE 0
         IN  IF inside # 0 THEN inside
             ELSE IF D[c].badges # <<>> THEN c
             ELSE FirstBadgeIn(D, s, c + 1)

\* element.closest('[class*="price"], [class*="Price"], [id*="price"], .a-price')
IsPriceContainer(s) ==
    \/ Includes(page[s].className, "price")
    \/ Includes(page[s].className, "Price")
    \/ Includes(page[s].id, "price")
    \/ HasClass(s, "a-price")

\* the innermost of the slots cs, which lie on one path; 0 when there is none
Innermost(cs) == IF cs = {} THEN 0 ELSE CHOOSE a \in cs : \A b \in cs : b <= a

ClosestPriceContainer(element) ==
    Innermost({a \in {element} \cup Ancestors(element) : IsPriceContainer(a)})

\* the first sibling after the element that is a badge
First(after) == IF after = {} THEN 0 ELSE CHOOSE c \in after : \A b \in after : c <= b

NextSiblingBadge(D, element) ==
    First({c \in Slots : /\ page[c].parent = page[element].parent
                         /\ c >= element
                         /\ D[c].badges # <<>>})

\* the third method of findExistingBadge
BadgeInContainer(D, element, priceContainer) ==
    IF priceContainer # 0 /\ priceContainer # element
    THEN FirstBadgeIn(D, priceContainer, 1)
    ELSE 0

\* the second method, and the third when it finds nothing
BadgeNearby(D, element, sibling) ==
    IF sibling # 0 THEN sibling
    ELSE BadgeInContainer(D, element, ClosestPriceContainer(element))

\* An element of the document that is a key of injectedBadges is followed by
\* its badge: a badge leaves the document in removeBadges, which clears the
\* map, or together with its price element.
findExistingBadge(W, element) ==
    IF Ref(element) \in W.injectedBadges /\ W.dom[element].badges # <<>>
    THEN element
    ELSE BadgeNearby(W.dom, element, NextSiblingBadge(W.dom, element))

\* one round of the forEach of injectBadgesSideBySide
\* the round for an element in the document, with what findExistingBadge
\* returned
BadgeFor(W, element, hoursFormatted, existingBadge) ==
    IF existingBadge # 0
    THEN IF W.dom[element].attrs.hoursFormatted = hoursFormatted THEN W
         ELSE [W EXCEPT
                 !.dom[existingBadge].badges = <<hoursFormatted>> \o Tail(@),
                 !.dom[element].attrs.hoursFormatted = hoursFormatted]
    ELSE IF IsHiddenOrContainer(element) THEN W
    ELSE [W EXCEPT
            !.dom[element].badges = <<createBadge(hoursFormatted, element)>> \o @,
            !.injectedBadges = @ \cup {Ref(element)}]

SideBySideStep(W, convs, index) ==
    LET element        == W.detectedPrices[index].element
        hoursFormatted == IF index <= Len(convs) THEN convs[index].formatted ELSE ""
    IN  IF hoursFormatted = "" \/ ~W.detectedPrices[index].live THEN W
        ELSE BadgeFor(W, element, hoursFormatted, findExistingBadge(W, element))

RECURSIVE SideBySideLoop(_, _, _)
SideBySideLoop(W, convs, index) ==
    IF index > Len(W.detectedPrices) THEN W
    ELSE SideBySideLoop(SideBySideStep(W, convs, index), convs, index + 1)

injectBadgesSideBySide(W, convs) == SideBySideLoop(W, convs, 1)

\* one round of the forEach of injectBadgesReplace
ReplaceStep(W, convs, index) ==
    LET element        == W.detectedPrices[index].element
        hoursFormatted == IF index <= Len(convs) THEN convs[index].formatted ELSE ""
    IN  IF hoursFormatted = "" \/ ~W.detectedPrices[index].live THEN W
        ELSE IF W.dom[element].attrs.replaced = "true" THEN W
        ELSE IF IsHiddenOrContainer(element) THEN W
        ELSE replacePriceWithHours(W, element, hoursFormatted)

RECURSIVE ReplaceLoop(_, _, _)
ReplaceLoop(W, convs, index) ==
    IF index > Len(W.detectedPrices) THEN W
    ELSE ReplaceLoop(ReplaceStep(W, convs, index), convs, index + 1)

injectBadgesReplace(W, convs) == ReplaceLoop(W, convs, 1)

\* replacedPrices.forEach of removeBadges, in insertion order
RECURSIVE RestoreLoop(_, _)
RestoreLoop(W, i) ==
    IF i > Len(W.replacedPrices) THEN W
    ELSE RestoreLoop(IF W.replacedPrices[i].live
                     THEN restoreOriginalPrice(W, W.replacedPrices[i].element)
                     ELSE W,
                     i + 1)

\* document.querySelectorAll(".price-hours-badge") finds every badge of the
\* document, also the ones no map knows
RemoveAllBadges(D) == [s \in Slots |-> [D[s] EXCEPT !.badges = <<>>]]

removeBadges(W) ==
    [RestoreLoop([W EXCEPT !.dom = RemoveAllBadges(@), !.injectedBadges = {}], 1)
       EXCEPT !.replacedPrices = <<>>]

\* the marking that counts the candidates from one
MarkFromOne(D, prices) ==
    [s \in Slots |->
        IF \E i \in 1..Len(prices) : prices[i].element = s
        THEN LET i == CHOOSE i \in 1..Len(prices) : prices[i].element = s
             IN  [D[s] EXCEPT !.attrs.detected = "true",
                              !.attrs.priceValue = NumberAttr(prices[i].price),
                              !.attrs.priceIndex = i]
        ELSE D[s]]

\* markPriceElements, then the forEach of processPage that stores the
\* conversions; indices are the JavaScript (0-based) ones
markPriceElements(D, prices) ==
    [s \in Slots |->
        IF \E i \in 1..Len(prices) : prices[i].element = s
        THEN LET i == CHOOSE i \in 1..Len(prices) : prices[i].element = s
             IN  [D[s] EXCEPT !.attrs.detected = "true",
                              !.attrs.priceValue = NumberAttr(prices[i].price),
                              !.attrs.priceIndex = i - 1]
        ELSE D[s]]

StoreConversions(D, prices, convs) ==
    [s \in Slots |->
        IF \E i \in 1..Len(prices) : prices[i].element = s
        THEN LET i == CHOOSE i \in 1..Len(prices) : prices[i].element = s
             IN  [D[s] EXCEPT !.attrs.hoursValue = NumberAttr(convs[i].hours),
                              !.attrs.hoursFormatted = convs[i].formatted]
        ELSE D[s]]

(***************************************************************************)
(* utils/shopping-sites.js                                                 *)
(***************************************************************************)
SHOPPING_SITES == {"amazon.com", "amazon.co.uk", "amazon.ca", "amazon.de", "ebay.com",
                   "etsy.com", "walmart.com", "target.com", "bestbuy.com", "newegg.com",
                   "shopify.com", "shop.com", "zappos.com", "overstock.com",
                   "wayfair.com", "homedepot.com", "lowes.com", "macys.com",
                   "nordstrom.com", "sephora.com", "ulta.com", "asos.com", "zara.com",
                   "h&m.com", "gap.com", "oldnavy.com", "bananarepublic.com",
                   "athleta.com", "adidas.com", "nike.com", "puma.com",
                   "underarmour.com"}

SHOPPING_KEYWORDS == {"shop", "store", "buy", "cart", "checkout", "product", "purchase",
                      "merchandise"}

StartsWith(s, prefix) ==
    Len(s) >= Len(prefix) /\ toLowerCase(SubSeq(s, 1, Len(prefix))) = prefix

\* first position >= i of s that holds one of chars, Len(s) + 1 without one
RECURSIVE FindFirst(_, _, _)
FindFirst(s, i, chars) ==
    IF i > Len(s) \/ Char(s, i) \in chars THEN i ELSE FindFirst(s, i + 1, chars)

SchemeLength(href) ==
    IF StartsWith(href, "https://") THEN 8
    ELSE IF StartsWith(href, "http://") THEN 7
    ELSE 0

NoUrl == [valid |-> FALSE, hostname |-> "", pathname |-> ""]

\* authority: what stands between the scheme and the path
UrlParts(authority, path) ==
    LET hostname == toLowerCase(SubSeq(authority, 1, FindFirst(authority, 1, {":"}) - 1))
    IN  IF hostname = "" \/ \E i \in 1..Len(hostname) : IsSpace(Char(hostname, i))
        THEN NoUrl
        ELSE [valid |-> TRUE, hostname |-> hostname,
              pathname |-> IF path = "" THEN "/" ELSE path]

\* hostEnd: where the authority ends
UrlFrom(href, start, hostEnd) ==
    UrlParts(SubSeq(href, start, hostEnd - 1),
             SubSeq(href, hostEnd, FindFirst(href, hostEnd, {"?", "#"}) - 1))

ParseUrl(href, scheme) ==
    IF scheme = 0 THEN NoUrl
    ELSE UrlFrom(href, scheme + 1, FindFirst(href, scheme + 1, {"/", "?", "#"}))

\* new URL(url) for an http(s) address or a text without a scheme; valid is
\* FALSE when the constructor throws
URL(href) == ParseUrl(trim(href), SchemeLength(trim(href)))

\* the classifier without its look at the path
HostnameOnly(u) ==
    /\ u.valid
    /\ LET hostname == toLowerCase(u.hostname)
       IN  \/ \E site \in SHOPPING_SITES : Includes(hostname, site)
           \/ \E keyword \in SHOPPING_KEYWORDS : Includes(hostname, keyword)

\* u is what new URL(url) yields: u.valid is FALSE when it throws
isShoppingSite(u) ==
    /\ u.valid
    /\ LET hostname == toLowerCase(u.hostname)
           pathname == toLowerCase(u.pathname)
       IN  \/ \E site \in SHOPPING_SITES : Includes(hostname, site)
           \/ \E keyword \in SHOPPING_KEYWORDS :
                  Includes(hostname, keyword) \/ Includes(pathname, keyword)

(***************************************************************************)
(* Storage reads.  failed: chrome.storage.local.get rejected.              *)
(***************************************************************************)
DEFAULT_WAGE == Whole(0)

\* result[STORAGE_KEY] || DEFAULT_WAGE; NULL is "no value stored"
getHourlyWage(failed) ==
    IF failed \/ IsNull(storage.hourlyWage) \/ storage.hourlyWage.n = 0
    THEN DEFAULT_WAGE
    ELSE storage.hourlyWage

\* the read that takes what is stored even when the read has failed
StoredDisplayMode(failed) ==
    IF storage.displayMode = "" THEN "side-by-side" ELSE storage.displayMode

\* result.displayMode || "side-by-side"; "" is "no value stored"
getDisplayMode(failed) ==
    IF failed \/ storage.displayMode = "" THEN "side-by-side" ELSE storage.displayMode

\* result.showHours !== false
getShowHours(failed) == IF failed THEN TRUE ELSE storage.showHours

(***************************************************************************)
(* Suspended async calls.  A call is named by the await it waits at:       *)
(*   init_mode, init_show, init_wage   init()                              *)
(*   wage                              processPage(), at getHourlyWage      *)
(*   show, mode                        injectBadges()                       *)
(***************************************************************************)
Awaits == {"init_mode", "init_show", "init_wage", "wage", "show", "mode"}

MaxTasks == 2

RECURSIVE SumOver(_, _)
SumOver(f, S) ==
    IF S = {} THEN 0
    ELSE LET x == CHOOSE x \in S : TRUE IN f[x] + SumOver(f, S \ {x})

NumTasks(T) == SumOver(T, Awaits)

Suspend(T, at) == [T EXCEPT ![at] = @ + 1]

Finish(T, at) == [T EXCEPT ![at] = @ - 1]

Move(T, from, to) == Suspend(Finish(T, from), to)

(***************************************************************************)
(* setupMutationObserver: the debounce timer                               *)
(***************************************************************************)
\* the 500 ms of the setTimeout call, in ticks of the model's clock
DebounceTicks == 2

MaxObservers == 2

\* clearTimeout(window.priceConversionTimeout): the timer the slot names,
\* if it is still pending
clearTimeout(ts) == SelectSeq(ts, LAMBDA t : ~t.slot)

\* window.priceConversionTimeout = setTimeout(..., 500)
setTimeout(ts) == Append(ts, [rem |-> DebounceTicks, slot |-> TRUE])

\* the callback without its clearTimeout
ScheduleOnly(ts) == setTimeout(ts)

\* the observer callback with shouldReprocess set
ObserverCallback(ts) == setTimeout(clearTimeout(ts))

MaxBurst == 2

\* every installed observer runs its callback on the batch
RECURSIVE Callbacks(_, _)
Callbacks(ts, n) == IF n = 0 THEN ts ELSE Callbacks(ObserverCallback(ts), n - 1)

\* a batch of mutations reaches every installed observer; a batch that comes
\* before the timer of the one before has fired continues the burst
AfterMutation(qualifies) ==
    IF qualifies /\ observers > 0
    THEN /\ timers' = Callbacks(timers, observers)
         /\ burst' = IF timers # <<>>
                     THEN (IF burst < MaxBurst THEN burst + 1 ELSE burst)
                     ELSE 1
    ELSE UNCHANGED <<timers, burst>>

\* what an operation on the World leaves behind
Commit(W) ==
    /\ dom' = W.dom
    /\ detectedPrices' = W.detectedPrices
    /\ injectedBadges' = W.injectedBadges
    /\ replacedPrices' = W.replacedPrices
    /\ AfterMutation(W.mutated)

(***************************************************************************)
(* Pages, addresses and the initial state                                  *)
(***************************************************************************)
\* what the service worker can have stored before the page is loaded
StoredWages == {DEFAULT_WAGE, Whole(20)}

StoredModes == {"", "replace"}

MaxEvents == 2

\* one more request is made to the extension, or the host page changes
Event == events < MaxEvents /\ events' = events + 1

\* The state when the content script has been loaded into the page: init()
\* has run injectStyles and waits for getDisplayMode.  Storage holds what
\* onInstalled wrote or what the user has saved since.
TabLoaded(loads) ==
    /\ load \in loads
    /\ dom = [s \in Slots |-> IF page[s].initial THEN PristineElement(s)
                              ELSE EmptySlot(<<>>)]
    /\ storage \in [hourlyWage : StoredWages, displayMode : StoredModes,
                    showHours : {TRUE}]
    /\ detectedPrices = <<>>
    /\ conversions = <<>>
    /\ isActive = FALSE
    /\ injectedBadges = {}
    /\ replacedPrices = <<>>
    /\ stylesInjected = TRUE
    /\ displayMode = "side-by-side"
    /\ showHours = TRUE
    /\ tasks = [a \in Awaits |-> IF a = "init_mode" THEN 1 ELSE 0]
    /\ observers = 0
    /\ timers = <<>>
    /\ burst = 0
    /\ inbox = <<>>
    /\ lastResponse = NoResponse
    /\ events = 0
    /\ passSteps = 0
    /\ deactivated = FALSE

ContentLoaded == TabLoaded(Loads)

\* the popup before init() has loaded anything into it
BlankInputs == [type |-> "money", green |-> "", yellow |-> "", red |-> ""]

\* no function applied yet
NoCall == [fn |-> "", x |-> NULL, y |-> NULL, settings |-> NoTierSettings,
           href |-> "", num |-> NULL, str |-> "", ok |-> FALSE, list |-> <<>>,
           element |-> 0]

\* Nothing has stored tier settings, the popup is closed.
Init ==
    /\ ContentLoaded
    /\ tierSettings = NoTierSettings
    /\ tierInputs = BlankInputs
    /\ call = NoCall

popupVars == <<tierSettings, tierInputs>>

pageVars == <<load, popupVars, call>>

\* what the content script's own steps leave alone
envVars == <<load, events, deactivated, popupVars, call>>

worldVars == <<dom, detectedPrices, injectedBadges, replacedPrices>>

timerVars == <<timers, burst>>

(***************************************************************************)
(* content/content-script.js: the async functions, one action per segment  *)
(* between awaits                                                          *)
(***************************************************************************)
\* init(), resumed with the display mode; failed: the storage read failed
InitWithDisplayMode(failed) ==
    /\ tasks["init_mode"] > 0
    /\ displayMode' = getDisplayMode(failed)
    /\ tasks' = Move(tasks, "init_mode", "init_show")
    /\ UNCHANGED <<envVars, passSteps, worldVars, timerVars, storage, conversions, isActive,
                   stylesInjected, showHours, observers, inbox, lastResponse>>

InitAfterDisplayMode == \E failed \in BOOLEAN : InitWithDisplayMode(failed)

\* init(), resumed with the show-hours flag: the site check
InitWithShowHours(failed) ==
    /\ tasks["init_show"] > 0
    /\ showHours' = getShowHours(failed)
    /\ tasks' = IF isShoppingSite(url) THEN Move(tasks, "init_show", "init_wage")
                ELSE Finish(tasks, "init_show")
    /\ UNCHANGED <<envVars, passSteps, worldVars, timerVars, storage, conversions, isActive,
                   stylesInjected, displayMode, observers, inbox, lastResponse>>

InitAfterShowHours == \E failed \in BOOLEAN : InitWithShowHours(failed)

\* init(), resumed with the wage: isActive = true, processPage() runs to its
\* first await, setupMutationObserver()
InitWithWage(failed) ==
    /\ tasks["init_wage"] > 0
    /\ LET wage == getHourlyWage(failed)
       IN  IF wage.n <= 0
           THEN /\ tasks' = Finish(tasks, "init_wage")
                /\ UNCHANGED <<isActive, observers>>
           ELSE /\ isActive' = TRUE
                /\ tasks' = Move(tasks, "init_wage", "wage")
                /\ observers' = IF observers < MaxObservers THEN observers + 1
                                ELSE observers
    /\ UNCHANGED <<envVars, passSteps, worldVars, timerVars, storage, conversions,
                   stylesInjected, displayMode, showHours, inbox, lastResponse>>

InitAfterWage == \E failed \in BOOLEAN : InitWithWage(failed)

PriceList(prices) == [i \in 1..Len(prices) |-> prices[i].price]

\* the document is as the host page wrote it
PristineDocument ==
    \A s \in Slots : dom[s] = IF dom[s].present THEN PristineElement(s)
                               ELSE EmptySlot(<<>>)

\* A full pass is three steps: detection, reset, injection.  passSteps
\* counts the steps of passes that follow one another with no other call in
\* flight and nothing else touching the document, the first one starting
\* from the page as the host wrote it; TwoPasses steps are two such passes.
StepsOfPass == 3

TwoPasses == 2 * StepsOfPass

\* no other call is suspended, and this is the step that comes next
InPass(steps) == NumTasks(tasks) = 1 /\ passSteps \in steps

\* processPage from the detection on
ProcessDetected(prices, convs) ==
    IF prices = <<>>
    THEN /\ tasks' = Finish(tasks, "wage")
         /\ detectedPrices' = prices
         /\ passSteps' = 0
         /\ UNCHANGED <<dom, conversions>>
    ELSE /\ tasks' = Move(tasks, "wage", "show")
         /\ detectedPrices' = prices
         /\ conversions' = convs
         /\ dom' = StoreConversions(markPriceElements(dom, prices), prices, convs)
         /\ passSteps' = IF InPass({StepsOfPass, TwoPasses}) THEN StepsOfPass + 1
                          ELSE IF NumTasks(tasks) = 1 /\ PristineDocument THEN 1
                          ELSE 0

ProcessWith(wage, prices) ==
    IF wage.n <= 0
    THEN /\ tasks' = Finish(tasks, "wage")
         /\ passSteps' = 0
         /\ UNCHANGED <<dom, detectedPrices, conversions>>
    ELSE ProcessDetected(prices, convertPricesToHours(PriceList(prices), wage))

\* processPage(), resumed with the wage: detect, mark, convert, and
\* injectBadges() up to its first await
ProcessPageWithWage(failed) ==
    /\ tasks["wage"] > 0
    /\ ProcessWith(getHourlyWage(failed), detectPrices(dom))
    /\ UNCHANGED <<envVars, timerVars, storage, isActive, injectedBadges,
                   replacedPrices, stylesInjected, displayMode, showHours, observers,
                   inbox, lastResponse>>

ProcessPageAfterWage == \E failed \in BOOLEAN : ProcessPageWithWage(failed)

\* injectBadges(), resumed with the show-hours flag: removeBadges()
InjectBadgesWithShowHours(failed) ==
    /\ tasks["show"] > 0
    /\ showHours' = getShowHours(failed)
    /\ tasks' = IF showHours' THEN Move(tasks, "show", "mode")
                ELSE Finish(tasks, "show")
    /\ passSteps' = IF InPass({1, StepsOfPass + 1}) /\ showHours' THEN passSteps + 1 ELSE 0
    /\ Commit(removeBadges(World))
    /\ UNCHANGED <<envVars, storage, conversions, isActive, stylesInjected,
                   displayMode, observers, inbox, lastResponse>>

InjectBadgesAfterShowHours == \E failed \in BOOLEAN : InjectBadgesWithShowHours(failed)

\* injectBadges(), resumed with the display mode
InjectBadgesWithDisplayMode(failed) ==
    /\ tasks["mode"] > 0
    /\ displayMode' = getDisplayMode(failed)
    /\ Commit(IF displayMode' = "replace"
              THEN injectBadgesReplace(World, conversions)
              ELSE injectBadgesSideBySide(World, conversions))
    /\ tasks' = Finish(tasks, "mode")
    /\ passSteps' = IF InPass({2, StepsOfPass + 2}) /\ displayMode' = "side-by-side"
                     THEN passSteps + 1 ELSE 0
    /\ UNCHANGED <<envVars, storage, conversions, isActive, stylesInjected,
                   showHours, observers, inbox, lastResponse>>

InjectBadgesAfterDisplayMode == \E failed \in BOOLEAN : InjectBadgesWithDisplayMode(failed)

(***************************************************************************)
(* content/content-script.js: setActive and the message listener           *)
(***************************************************************************)
Request(action, mode, flag) == [action |-> action, mode |-> mode, flag |-> flag]

\* the removeAttribute calls of setActive(false); they change the document
\* only for elements that are still in it
StripDetection(D, prices) ==
    [s \in Slots |->
        IF \E i \in 1..Len(prices) : prices[i].element = s /\ prices[i].live
        THEN [D[s] EXCEPT !.attrs = [NoToolAttrs EXCEPT !.replaced = D[s].attrs.replaced]]
        ELSE D[s]]

\* setActive(false)
\* W: the state that removeBadges left
ClearDetection(W) ==
    [W EXCEPT !.dom = StripDetection(@, W.detectedPrices), !.detectedPrices = <<>>]

Deactivate(W) == ClearDetection(removeBadges(W))

CanSuspend == NumTasks(tasks) < MaxTasks

\* The listener, for one request.  A handler that calls an async function
\* runs it to its first await; who delivers the request says what happens
\* to inbox.
OnMessage(request) ==
    /\ lastResponse' = IF request.action = "reprocess" THEN lastResponse
                       ELSE [from |-> "content", success |-> TRUE]
    /\ CASE request.action = "getPrices" ->
              UNCHANGED <<worldVars, timerVars, conversions, isActive, stylesInjected,
                          displayMode, showHours, tasks>>
         [] request.action = "setActive" /\ request.flag ->
              /\ CanSuspend
              /\ isActive' = TRUE
              /\ tasks' = Suspend(tasks, "wage")
              /\ UNCHANGED <<worldVars, timerVars, conversions, stylesInjected,
                             displayMode, showHours>>
         [] request.action = "setActive" /\ ~request.flag ->
              /\ isActive' = FALSE
              /\ Commit(Deactivate(World))
              /\ conversions' = <<>>
              /\ UNCHANGED <<stylesInjected, displayMode, showHours, tasks>>
         [] request.action = "reprocess" /\ ~isActive ->
              /\ CanSuspend
              /\ stylesInjected' = TRUE
              /\ tasks' = Suspend(tasks, "init_mode")
              /\ UNCHANGED <<worldVars, timerVars, conversions, isActive, displayMode,
                             showHours>>
         [] request.action = "reprocess" /\ isActive ->
              /\ CanSuspend
              /\ tasks' = Suspend(tasks, "wage")
              /\ UNCHANGED <<worldVars, timerVars, conversions, isActive,
                             stylesInjected, displayMode, showHours>>
         [] request.action = "setDisplayMode" ->
              /\ CanSuspend
              /\ displayMode' = IF request.mode = "" THEN "side-by-side" ELSE request.mode
              /\ tasks' = Suspend(tasks, "show")
              /\ UNCHANGED <<worldVars, timerVars, conversions, isActive,
                             stylesInjected, showHours>>
         [] request.action = "setShowHours" ->
              /\ CanSuspend
              /\ showHours' = request.flag
              /\ tasks' = Suspend(tasks, "show")
              /\ UNCHANGED <<worldVars, timerVars, conversions, isActive,
                             stylesInjected, displayMode>>
    /\ passSteps' = IF request.action = "setActive" /\ ~request.flag THEN 0
                     ELSE passSteps
    /\ deactivated' = IF request.action = "setActive" THEN ~request.flag
                       ELSE deactivated
    /\ UNCHANGED <<pageVars, storage, observers>>

RemoveAt(q, i) == SubSeq(q, 1, i - 1) \o SubSeq(q, i + 1, Len(q))

\* a message of the service worker reaches the tab
Deliver ==
    \E i \in 1..Len(inbox) :
        /\ OnMessage(inbox[i])
        /\ inbox' = RemoveAt(inbox, i)
        /\ UNCHANGED events

\* Requests that reach the listener from elsewhere: nothing in the extension
\* sends setActive, and nothing checks the mode of a setDisplayMode request.
ExternalRequests ==
    {Request("setActive", "", TRUE), Request("setActive", "", FALSE),
     Request("setDisplayMode", "bogus", FALSE)}

\* the listener runs for a request that comes from elsewhere
External(request) ==
    /\ Event
    /\ OnMessage(request)
    /\ UNCHANGED inbox

ExternalMessage == \E request \in ExternalRequests : External(request)

(***************************************************************************)
(* The MutationObserver's timer and the host page                          *)
(***************************************************************************)
\* the timer callback: processPage() up to its first await
TimerFires ==
    \E i \in 1..Len(timers) :
        /\ timers[i].rem = 0
        /\ timers' = RemoveAt(timers, i)
        /\ burst' = 0
        /\ IF isActive
           THEN CanSuspend /\ tasks' = Suspend(tasks, "wage")
           ELSE UNCHANGED tasks
        /\ UNCHANGED <<envVars, passSteps, worldVars, storage, conversions, isActive,
                       stylesInjected, displayMode, showHours, observers, inbox,
                       lastResponse>>

\* one tick of time passes
Tick ==
    /\ \E i \in 1..Len(timers) : timers[i].rem > 0
    /\ timers' = [i \in 1..Len(timers) |->
                     [timers[i] EXCEPT !.rem = IF @ > 0 THEN @ - 1 ELSE 0]]
    /\ UNCHANGED <<envVars, passSteps, worldVars, burst, storage, conversions, isActive,
                   stylesInjected, displayMode, showHours, tasks, observers, inbox,
                   lastResponse>>

ParentOpen(D, s) ==
    IF page[s].parent = 0 THEN TRUE
    ELSE D[page[s].parent].present /\ ~D[page[s].parent].over

\* the host page inserts the element of an empty slot, as it wrote it
HostAdds ==
    \E s \in Slots :
        /\ Event
        /\ page[s].dynamic
        /\ ~dom[s].present
        /\ ParentOpen(dom, s)
        /\ LET D1 == [c \in Slots |->
                        IF c = s THEN [PristineElement(c) EXCEPT !.badges = dom[c].badges]
                        ELSE IF c \in Descendants(s) THEN PristineElement(c)
                        ELSE dom[c]]
           IN  /\ dom' = D1
               /\ AfterMutation(hasPriceIndicator(D1, s))
        /\ passSteps' = 0
        /\ UNCHANGED <<pageVars, deactivated, detectedPrices, injectedBadges, replacedPrices,
                       storage, conversions, isActive, stylesInjected, displayMode,
                       showHours, tasks, observers, inbox, lastResponse>>

\* the host page removes an element with all it holds; a badge that follows
\* the element stays
HostRemoves ==
    \E s \in Slots :
        /\ Event
        /\ page[s].dynamic
        /\ dom[s].present
        /\ LET gone == {s} \cup Descendants(s)
               W1   == KillRefs(World, gone)
           IN  Commit([W1 EXCEPT !.dom =
                          [c \in Slots |->
                              IF c = s THEN EmptySlot(@[c].badges)
                              ELSE IF c \in gone THEN EmptySlot(<<>>)
                              ELSE @[c]]])
        /\ passSteps' = 0
        /\ UNCHANGED <<pageVars, deactivated, storage, conversions, isActive, stylesInjected,
                       displayMode, showHours, tasks, observers, inbox, lastResponse>>

(***************************************************************************)
(* background/service-worker.js                                            *)
(***************************************************************************)
MaxInbox == 2

\* request.wage of a setWage request: a number (NULL is NaN) or something else
WagePayloads ==
    {[type |-> "number", v |-> Whole(20)], [type |-> "number", v |-> Whole(0)],
     [type |-> "number", v |-> Whole(0 - 5)], [type |-> "number", v |-> NULL],
     [type |-> "string", v |-> NULL]}

ModePayloads == {"side-by-side", "replace", "bogus", ""}

\* the validation without its test of the sign
SignUnchecked(wage) == wage.type # "number" \/ IsNull(wage.v)

\* typeof wage !== "number" || isNaN(wage) || wage < 0
InvalidWage(wage) == wage.type # "number" \/ IsNull(wage.v) \/ wage.v.n < 0

\* mode !== "side-by-side" && mode !== "replace"
InvalidMode(mode) == mode # "side-by-side" /\ mode # "replace"

\* tabs.forEach(sendMessage) of the handler, then of storage.onChanged when
\* the stored value has changed
Notify(message, changed) ==
    inbox' = inbox \o <<message>> \o (IF changed THEN <<message>> ELSE <<>>)

Room(changed) == Len(inbox) + (IF changed THEN 2 ELSE 1) <= MaxInbox

contentVars == <<dom, detectedPrices, injectedBadges, replacedPrices, timers,
                 burst, passSteps, deactivated, conversions, isActive, stylesInjected,
                 displayMode, showHours, tasks, observers>>

\* the setWage handler, for request.wage = wage
SetWage(wage) ==
    /\ Event
    /\ IF InvalidWage(wage)
       THEN /\ lastResponse' = [from |-> "worker", success |-> FALSE]
            /\ UNCHANGED <<storage, inbox>>
       ELSE LET changed == storage.hourlyWage # wage.v
            IN  /\ Room(changed)
                /\ storage' = [storage EXCEPT !.hourlyWage = wage.v]
                /\ Notify(Request("reprocess", "", FALSE), changed)
                /\ lastResponse' = [from |-> "worker", success |-> TRUE]
    /\ UNCHANGED <<pageVars, contentVars>>

SWSetWage == \E wage \in WagePayloads : SetWage(wage)

\* the setDisplayMode handler, for request.mode = mode
SetDisplayMode(mode) ==
    /\ Event
    /\ IF InvalidMode(mode)
       THEN /\ lastResponse' = [from |-> "worker", success |-> FALSE]
            /\ UNCHANGED <<storage, inbox>>
       ELSE LET changed == storage.displayMode # mode
            IN  /\ Room(changed)
                /\ storage' = [storage EXCEPT !.displayMode = mode]
                /\ Notify(Request("setDisplayMode", mode, FALSE), changed)
                /\ lastResponse' = [from |-> "worker", success |-> TRUE]
    /\ UNCHANGED <<pageVars, contentVars>>

SWSetDisplayMode == \E mode \in ModePayloads : SetDisplayMode(mode)

SWSetShowHours ==
    \E show \in BOOLEAN :
        LET changed == storage.showHours # show
        IN  /\ Event
            /\ Room(changed)
            /\ storage' = [storage EXCEPT !.showHours = show]
            /\ Notify(Request("setShowHours", "", show), changed)
            /\ lastResponse' = [from |-> "worker", success |-> TRUE]
            /\ UNCHANGED <<pageVars, contentVars>>

SWReprocessAll ==
    /\ Event
    /\ Room(FALSE)
    /\ Notify(Request("reprocess", "", FALSE), FALSE)
    /\ lastResponse' = [from |-> "worker", success |-> TRUE]
    /\ UNCHANGED <<pageVars, contentVars, storage>>

(***************************************************************************)
(* The system                                                              *)
(***************************************************************************)
Next ==
    \/ InitAfterDisplayMode
    \/ InitAfterShowHours
    \/ InitAfterWage
    \/ ProcessPageAfterWage
    \/ InjectBadgesAfterShowHours
    \/ InjectBadgesAfterDisplayMode
    \/ Deliver
    \/ ExternalMessage
    \/ TimerFires
    \/ Tick
    \/ HostAdds
    \/ HostRemoves
    \/ SWSetWage
    \/ SWSetDisplayMode
    \/ SWSetShowHours
    \/ SWReprocessAll

Spec == Init /\ [][Next]_vars

(***************************************************************************)
(* What the document shows                                                 *)
(***************************************************************************)
\* a badge (class price-hours-badge) is in the document
SomeBadge == \E s \in Slots : dom[s].badges # <<>>

\* an element of the document carries data-price-replaced
SomeReplaced == \E s \in Slots : dom[s].present /\ dom[s].attrs.replaced # NoAttr

\* the element of slot s carries one of the five detection and conversion
\* attributes
HasDetectionAttrs(s) ==
    /\ dom[s].present
    /\ [dom[s].attrs EXCEPT !.replaced = NoAttr] # NoToolAttrs

\* calls of processPage or injectBadges suspended at a storage await
PassesInFlight == tasks["wage"] + tasks["show"] + tasks["mode"]

(***************************************************************************)
(* Properties                                                              *)
(***************************************************************************)
\* C2: in every reachable state the document never holds both a badge and
\* an element marked data-price-replaced; the side-by-side and the replace
\* representation never coexist, overlapping calls included.
C2_RepresentationsNeverCoexist == ~(SomeBadge /\ SomeReplaced)

\* C5: in every reachable state no element is a key of both injectedBadges
\* and replacedPrices.
C5_MapsDisjoint ==
    \A b \in injectedBadges : \A i \in 1..Len(replacedPrices) :
        ~(b.live /\ replacedPrices[i].live /\ b.element = replacedPrices[i].element)

\* C7: only one pass runs at a time: no processPage or injectBadges call
\* starts while another one is suspended at a storage await.
C7_OnePassAtATime == PassesInFlight <= 1

\* C8: on a page that isShoppingSite rejects no pass ever runs: no element
\* gets detection attributes, no badge is inserted, no price is replaced,
\* whatever messages arrive.
C8_SiteClassifierGates ==
    ~isShoppingSite(url) =>
        /\ ~SomeBadge
        /\ ~SomeReplaced
        /\ \A s \in Slots : ~HasDetectionAttrs(s)

\* the live candidates of the last detection that injectBadgesSideBySide
\* does not skip as hidden or as a container
VisibleCandidates ==
    {detectedPrices[i].element : i \in {j \in 1..Len(detectedPrices) :
        /\ detectedPrices[j].live
        /\ dom[detectedPrices[j].element].present
        /\ ~IsHiddenOrContainer(detectedPrices[j].element)}}

\* C1: after two or more full passes in side-by-side mode from a document
\* without badges, with show-hours on, a wage above zero and no host change
\* in between, every detected price element has exactly one badge: none has
\* two, and no attached, non-hidden one has none.
C1_OneBadgePerCandidate ==
    passSteps = TwoPasses =>
        /\ \A s \in Slots : Len(dom[s].badges) <= 1
        /\ \A element \in VisibleCandidates : Len(dom[element].badges) = 1

\* the host page's own text, inline style and title of every element of
\* the document, which only replacePriceWithHours and restoreOriginalPrice
\* write
AsHostWrote ==
    \A s \in Slots :
        dom[s].present =>
            /\ ~dom[s].over
            /\ dom[s].style = page[s].style
            /\ dom[s].title = page[s].title

\* C3: the mode switch is lossless: once replaced prices have been restored
\* and the side-by-side badges are back, text, inner HTML, inline style and
\* title of every element, nested candidates included, are what they were
\* before the replacement.
C3_ModeSwitchLossless ==
    (NumTasks(tasks) = 0 /\ displayMode = "side-by-side" /\ replacedPrices = <<>>
        /\ injectedBadges # {})
    => AsHostWrote

\* no badge, no replaced element, no detection or conversion attribute
PristinePresentation ==
    /\ ~SomeBadge
    /\ ~SomeReplaced
    /\ \A s \in Slots : ~HasDetectionAttrs(s)

\* C4: after setActive(false) the document is pristine, whatever passes ran
\* before: no badge, no replaced element, none of the five detection and
\* conversion attributes, and empty candidate and conversion lists.
C4_DeactivationPristine ==
    [][OnMessage(Request("setActive", "", FALSE))
        => (PristinePresentation /\ detectedPrices = <<>> /\ conversions = <<>>)']_vars

\* C9: when the show-hours flag reads false injectBadges only resets: when
\* it completes the document holds no badge and no replaced element, and
\* injectedBadges and replacedPrices are empty.
C9_ShowHoursOffResetsOnly ==
    [][(tasks["show"] > 0 /\ tasks' = Finish(tasks, "show") /\ ~showHours')
        => (~SomeBadge /\ ~SomeReplaced /\ injectedBadges = {}
            /\ replacedPrices = <<>>)']_vars

\* the request was answered with a failure and nothing else happened
Rejected ==
    /\ ~lastResponse'.success
    /\ UNCHANGED <<storage, displayMode, dom, inbox, tasks>>

\* C10: a request with an invalid payload (a display mode other than
\* "side-by-side" and "replace"; a wage that is no number, NaN or negative)
\* gets a failure response and changes nothing: not the stored settings,
\* not the display mode in memory, not the document, and no tab is notified.
C10_InvalidPayloadRejected ==
    [][/\ \A wage \in WagePayloads :
            (InvalidWage(wage) /\ SetWage(wage)) => Rejected
       /\ \A mode \in ModePayloads :
            (InvalidMode(mode) /\ SetDisplayMode(mode)) => Rejected
       /\ \A request \in ExternalRequests :
            (request.action = "setDisplayMode" /\ InvalidMode(request.mode)
                /\ External(request)) => Rejected]_vars

\* the one timer a qualifying batch leaves behind
Restarted == <<[rem |-> DebounceTicks, slot |-> TRUE]>>

\* at most one timer is pending, and it stands for the batches of a burst
SingleSlot == Len(timers) <= 1 /\ (burst = 0 <=> timers = <<>>)

\* a qualifying batch has come in this step
Batch ==
    \/ burst' > burst
    \/ /\ timers' # timers
       /\ \E i \in 1..Len(timers') : timers'[i].rem = DebounceTicks

\* a timer has fired in this step
Fired == Len(timers') < Len(timers)

\* Every batch leaves just the timer it has set; a timer fires only when
\* DebounceTicks ticks have passed since the batch that set it, and then it
\* makes the one processPage call of the burst (which returns at once when
\* the script is not active) and leaves no timer behind.
DebounceStep ==
    /\ Batch => timers' = Restarted /\ burst' >= 1
    /\ Fired =>
          /\ timers[1].rem = 0
          /\ burst >= 1
          /\ timers' = <<>> /\ burst' = 0
          /\ tasks' = IF isActive THEN Suspend(tasks, "wage") ELSE tasks
    /\ (~Batch /\ ~Fired) =>
          /\ burst' = burst
          /\ \A i \in 1..Len(timers) : timers'[i].rem <= timers[i].rem

\* C6: reprocessing after mutations is debounced through one timer slot:
\* each qualifying batch cancels the pending timer and sets a new one, so at
\* most one timer is pending, and a burst of k >= 1 batches, each coming
\* before the timer of the one before fires, makes exactly one processPage
\* call, only after the fixed delay since the last batch.
C6_Debounced == [][SingleSlot /\ SingleSlot' /\ DebounceStep]_vars

\* a burst of MaxBurst batches whose timer is due
C6_BurstDue == burst = MaxBurst /\ timers = <<[rem |-> 0, slot |-> TRUE]>>

(***************************************************************************)
(* scripts/storage.js and popup/popup.js: the tier settings                *)
(***************************************************************************)
DEFAULT_TIER_SETTINGS == TierSettings("money", Whole(0), Whole(50), Whole(100))

\* result[TIER_SETTINGS_KEY] || DEFAULT_TIER_SETTINGS
getTierSettings(failed) ==
    IF failed \/ ~tierSettings.has THEN DEFAULT_TIER_SETTINGS ELSE tierSettings

\* x || fallback, for a number x
OrDefault(x, fallback) == IF IsNull(x) \/ IsZero(x) THEN fallback ELSE x

\* the text an input field shows for a number; the thresholds of the model
\* are whole numbers
NumberText(x) == ToString(x.n)

\* what loadTierSettings and the popup's storage.onChanged listener put into
\* the radio buttons and the input fields
Shown(settings) ==
    [type   |-> IF settings.type = "hours" THEN "hours" ELSE "money",
     green  |-> NumberText(OrDefault(settings.green, Whole(0))),
     yellow |-> NumberText(OrDefault(settings.yellow, Whole(50))),
     red    |-> NumberText(OrDefault(settings.red, Whole(100)))]

\* everything but the tier settings, the popup and the applied function
tabVars == <<load, events, storage, inbox, lastResponse, contentVars>>

\* chrome.storage.local.set({tierSettings: settings}) and, when the stored
\* value changes, the popup's storage.onChanged listener
StoreTierSettings(settings, failed) ==
    IF failed THEN UNCHANGED <<tierSettings, tierInputs>>
    ELSE /\ tierSettings' = settings
         /\ tierInputs' = IF settings # tierSettings THEN Shown(settings)
                          ELSE tierInputs

\* what the user can type into a tier input field
TierTexts == {"", "-5", "60", "abc"}

TierFields == {"green", "yellow", "red"}

\* the popup opens: init() reaches loadTierSettings
LoadTierSettings ==
    /\ \E failed \in BOOLEAN : tierInputs' = Shown(getTierSettings(failed))
    /\ UNCHANGED <<tabVars, tierSettings, call>>

\* the user types into a tier input field
EditTierInput ==
    /\ \E field \in TierFields, text \in TierTexts :
          tierInputs' = [tierInputs EXCEPT ![field] = text]
    /\ UNCHANGED <<tabVars, tierSettings, call>>

\* the settings saveTierSettings reads from the popup
ReadTierInputs(inputs) ==
    TierSettings(inputs.type,
                 OrDefault(parseFloat(inputs.green), Whole(0)),
                 OrDefault(parseFloat(inputs.yellow), Whole(50)),
                 OrDefault(parseFloat(inputs.red), Whole(100)))

\* yellow < green, or red < yellow
FailsPopupValidation(settings) ==
    Less(settings.yellow, settings.green) \/ Less(settings.red, settings.yellow)

\* saveTierSettings() with the popup showing inputs
saveTierSettings(inputs) ==
    LET settings == ReadTierInputs(inputs)
    IN  /\ IF FailsPopupValidation(settings)
           THEN tierSettings' = tierSettings /\ tierInputs' = inputs
           ELSE \E failed \in BOOLEAN :
                   /\ tierSettings' = IF failed THEN tierSettings ELSE settings
                   /\ tierInputs' = IF ~failed /\ settings # tierSettings
                                    THEN Shown(settings) ELSE inputs
        /\ UNCHANGED <<tabVars, call>>

\* a tier input field loses the focus
BlurTierInput == saveTierSettings(tierInputs)

\* the user picks a tier type
ChangeTierType ==
    \E type \in {"money", "hours"} :
        /\ type # tierInputs.type
        /\ saveTierSettings([tierInputs EXCEPT !.type = type])

\* settings handed to setTierSettings of scripts/storage.js
SettingsPayloads ==
    {NoTierSettings,
     TierSettings("euro", Whole(0), Whole(50), Whole(100)),
     TierSettings("money", NULL, Whole(50), Whole(100)),
     TierSettings("money", Whole(0 - 5), Whole(50), Whole(100)),
     TierSettings("money", Whole(60), Whole(50), Whole(100)),
     TierSettings("hours", Whole(2), Whole(8), Whole(40)),
     TierSettings("money", Whole(0), Whole(50), Whole(100))}

\* the validation of setTierSettings
InvalidTierSettings(settings) ==
    \/ ~settings.has
    \/ settings.type # "money" /\ settings.type # "hours"
    \/ \E t \in {settings.green, settings.yellow, settings.red} : IsNull(t) \/ t.n < 0

\* setTierSettings(settings) of scripts/storage.js
setTierSettings(settings) ==
    /\ \E failed \in BOOLEAN :
          StoreTierSettings(settings, InvalidTierSettings(settings) \/ failed)
    /\ UNCHANGED <<tabVars, call>>

StorageSetTierSettings == \E settings \in SettingsPayloads : setTierSettings(settings)

\* the tab is left as loaded: one page, the storage as installed
IdleTab ==
    /\ Init
    /\ load = "box, shop"
    /\ storage.hourlyWage = DEFAULT_WAGE
    /\ storage.displayMode = ""

NextPopup ==
    \/ LoadTierSettings
    \/ EditTierInput
    \/ BlurTierInput
    \/ ChangeTierType
    \/ StorageSetTierSettings

SpecPopup == IdleTab /\ [][NextPopup]_vars

(***************************************************************************)
(* The converter and the site classifier, applied to inputs                *)
(***************************************************************************)
\* prices, wages and tier values the functions are applied to
Numbers ==
    {NULL, Infinity, NegInfinity, Whole(0 - 5), Whole(0), Rat(1, 2), Whole(3),
     Whole(10), Whole(20), Whole(40), Whole(51), Whole(150)}

MaxEighths == 22

\* hours from -1/4 to MaxEighths / 8 in steps of 1/8
HoursInputs ==
    {NULL, Infinity, NegInfinity} \cup {Rat(n, 8) : n \in (0 - 2)..MaxEighths}

\* tier thresholds: in order, out of order, and unreadable
TierInputs ==
    {NoTierSettings, TierSettings("money", NULL, Whole(50), Whole(100)),
     TierSettings("money", Whole(60), Whole(50), Whole(100))}
    \cup {TierSettings("money", green, yellow, Whole(100)) :
             green \in {Whole(0 - 5), Whole(0), Whole(10)},
             yellow \in {Whole(10), Whole(50)}}

Addresses ==
    {"https://www.amazon.com/dp/X", "https://news.example.com/article",
     "not a url", "https://WWW.EBAY.COM/itm/1", "https://example.com/Shop/item",
     "https://example.com/a?q=shop", "http://mystore.io", "https://example.org:8080/",
     "https://notamazon.com.example.org/", ""}

Applied(fn) == [NoCall EXCEPT !.fn = fn]

ApplyCalculateHours ==
    /\ \E price \in Numbers, hourlyWage \in Numbers :
          call' = [Applied("calculateHours") EXCEPT
                      !.x = price, !.y = hourlyWage,
                      !.num = calculateHours(price, hourlyWage)]
    /\ UNCHANGED <<tabVars, popupVars>>

ApplyFormatHours ==
    /\ \E hours \in HoursInputs :
          call' = [Applied("formatHours") EXCEPT !.x = hours, !.str = formatHours(hours)]
    /\ UNCHANGED <<tabVars, popupVars>>

ApplyConvertPricesToHours ==
    /\ \E price \in {Whole(40), Infinity, NULL}, hourlyWage \in {Whole(20), Infinity} :
          call' = [Applied("convertPricesToHours") EXCEPT
                      !.y = hourlyWage,
                      !.list = convertPricesToHours(<<Whole(10), price>>, hourlyWage)]
    /\ UNCHANGED <<tabVars, popupVars>>

ApplyGetTierColor ==
    /\ \E value \in Numbers, settings \in TierInputs :
          call' = [Applied("getTierColor") EXCEPT
                      !.x = value, !.settings = settings,
                      !.str = getTierColor(value, settings)]
    /\ UNCHANGED <<tabVars, popupVars>>

ApplyIsShoppingSite ==
    /\ \E href \in Addresses :
          call' = [Applied("isShoppingSite") EXCEPT
                      !.href = href, !.ok = isShoppingSite(URL(href))]
    /\ UNCHANGED <<tabVars, popupVars>>

NextFunctions ==
    \/ ApplyCalculateHours
    \/ ApplyFormatHours
    \/ ApplyConvertPricesToHours
    \/ ApplyGetTierColor
    \/ ApplyIsShoppingSite

SpecFunctions == IdleTab /\ [][NextFunctions]_vars

(***************************************************************************)
(* The price detector, applied to texts and to the elements of pages       *)
(***************************************************************************)
\* texts that tell a time
TimeTexts ==
    {"2h 30m", "5 min remaining", "30 seconds", "Ships in 2h 30m",
     "1 hour 20 minutes", "45 min left", "10 sec"}

\* a currency symbol and a numeral, nothing else
CurrencyNumerals ==
    {"$19.99", "$1,234.56", "$0", "$0.005", "$1.2345", "$12.345", "$1.234.567",
     "€1.5", "£ 40", "$20000000", "$200000"}

\* the texts the detector's functions are applied to
Texts ==
    TimeTexts \cup CurrencyNumerals
    \cup {"", "99", "0", "200000", "-5", "abc", "Infinity", "$Infinity",
          "Sale ends soon", "2 days", "1.234"}

ApplyIsTimeValue ==
    /\ \E text \in Texts :
          call' = [Applied("isTimeValue") EXCEPT !.str = text, !.ok = isTimeValue(text)]
    /\ UNCHANGED <<tabVars, popupVars>>

\* element 0: parsePrice(priceText), without an element
ApplyParsePrice ==
    /\ \E priceText \in Texts, element \in 0..NSlots :
          call' = [Applied("parsePrice") EXCEPT
                      !.str = priceText, !.element = element,
                      !.num = parsePrice(priceText, dom, element)]
    /\ UNCHANGED <<tabVars, popupVars>>

ApplyIsPriceElement ==
    /\ \E element \in Slots :
          call' = [Applied("isPriceElement") EXCEPT
                      !.element = element, !.ok = isPriceElement(dom, element)]
    /\ UNCHANGED <<tabVars, popupVars>>

ApplyDetectPrices ==
    /\ call' = [Applied("detectPrices") EXCEPT !.list = detectPrices(dom)]
    /\ UNCHANGED <<tabVars, popupVars>>

\* processPage and injectBadges on the page as it was loaded, in
\* side-by-side mode, with every storage read answered at once
ApplySideBySidePass ==
    /\ detectedPrices = <<>>
    /\ \E wage \in {getHourlyWage(FALSE)}, prices \in {detectPrices(dom)} :
          /\ wage.n > 0
          /\ prices # <<>>
          /\ \E convs \in {convertPricesToHours(PriceList(prices), wage)} :
                /\ conversions' = convs
                /\ \E marked \in {StoreConversions(markPriceElements(dom, prices),
                                                   prices, convs)} :
                   \E W \in {injectBadgesSideBySide(
                                 removeBadges([World EXCEPT !.detectedPrices = prices,
                                                            !.dom = marked]),
                                 convs)} :
                      /\ dom' = W.dom
                      /\ detectedPrices' = W.detectedPrices
                      /\ injectedBadges' = W.injectedBadges
                      /\ replacedPrices' = W.replacedPrices
    /\ call' = Applied("processPage")
    /\ UNCHANGED <<load, events, deactivated, popupVars, storage, isActive,
                   stylesInjected, displayMode, showHours, tasks, observers,
                   timers, burst, inbox, lastResponse, passSteps>>

\* one of the sample pages is loaded, no display mode is stored
SamplePage ==
    /\ TabLoaded(SampleLoads)
    /\ storage.displayMode = ""
    /\ tierSettings = NoTierSettings
    /\ tierInputs = BlankInputs
    /\ call = NoCall

NextDetector ==
    \/ ApplyIsTimeValue
    \/ ApplyParsePrice
    \/ ApplyIsPriceElement
    \/ ApplyDetectPrices
    \/ ApplySideBySidePass

SpecDetector == SamplePage /\ [][NextDetector]_vars

(***************************************************************************)
(* Storage reads that fail                                                 *)
(***************************************************************************)
\* what a step does when the storage read it resumes from has failed
FailedReadSteps ==
    /\ InitWithDisplayMode(TRUE)
         => displayMode' = "side-by-side" /\ tasks' = Move(tasks, "init_mode", "init_show")
    /\ InitWithShowHours(TRUE)
         => showHours' /\ tasks'["init_show"] = tasks["init_show"] - 1
    /\ InitWithWage(TRUE)
         => tasks' = Finish(tasks, "init_wage") /\ UNCHANGED <<isActive, observers, dom>>
    /\ ProcessPageWithWage(TRUE)
         => /\ tasks' = Finish(tasks, "wage")
            /\ UNCHANGED <<dom, detectedPrices, conversions>>
    /\ InjectBadgesWithShowHours(TRUE)
         => showHours' /\ tasks' = Move(tasks, "show", "mode")
    /\ InjectBadgesWithDisplayMode(TRUE)
         => /\ displayMode' = "side-by-side"
            /\ dom' = injectBadgesSideBySide(World, conversions).dom
            /\ tasks' = Finish(tasks, "mode")

\* C11: a failed storage read yields the setting's default (wage 0, mode
\* "side-by-side", show-hours true, tier settings money/0/50/100), and the
\* call that waited for it goes on, or ends, with that default.
C11_FailedReadGivesDefault ==
    [][/\ getHourlyWage(TRUE) = Whole(0)
       /\ getDisplayMode(TRUE) = "side-by-side"
       /\ getShowHours(TRUE) = TRUE
       /\ getTierSettings(TRUE) = TierSettings("money", Whole(0), Whole(50), Whole(100))
       /\ FailedReadSteps]_vars

\* "replace" is stored and nobody has asked for anything, yet a pass has put
\* badges beside the prices: both reads of the display mode failed
C11_BadgesAfterFailedReads ==
    /\ events = 0
    /\ storage.displayMode = "replace"
    /\ displayMode = "side-by-side"
    /\ NumTasks(tasks) = 0
    /\ injectedBadges # {}
    /\ SomeBadge /\ ~SomeReplaced

(***************************************************************************)
(* Detection                                                               *)
(***************************************************************************)
\* every candidate's element carries the five attributes of its entry
Marked(D, prices, convs) ==
    \A i \in 1..Len(prices) :
        LET attrs == D[prices[i].element].attrs
        IN  /\ attrs.detected = "true"
            /\ attrs.priceValue = NumberAttr(prices[i].price)
            /\ attrs.priceIndex = i - 1
            /\ attrs.hoursValue = NumberAttr(convs[i].hours)
            /\ attrs.hoursFormatted = convs[i].formatted

\* the conversions of the candidates at a wage
ConversionsAt(prices, wage) ==
    [i \in 1..Len(prices) |->
        [hours |-> calculateHours(prices[i].price, wage),
         formatted |-> formatHours(calculateHours(prices[i].price, wage))]]

\* C12: when a pass that found a candidate has marked the page, every
\* candidate's element carries data-price-detected "true", its price, its
\* place in the list, and the hours and the formatted hours of its price at
\* the wage the pass read.
C12_CandidatesMarked ==
    [][(tasks["wage"] > 0 /\ tasks' = Move(tasks, "wage", "show"))
        => /\ detectedPrices' # <<>>
           /\ Marked(dom', detectedPrices',
                     ConversionsAt(detectedPrices', getHourlyWage(FALSE)))]_vars

\* a pass has marked three candidates and waits in injectBadges
C12_ThreeMarked ==
    /\ tasks["show"] > 0
    /\ Len(detectedPrices) = NSlots
    /\ \A i \in 1..Len(detectedPrices) :
          /\ detectedPrices[i].live
          /\ dom[detectedPrices[i].element].attrs.priceIndex = i - 1
          /\ dom[detectedPrices[i].element].attrs.hoursFormatted
                = formatHours(calculateHours(detectedPrices[i].price, Whole(20)))

NoRepeats(prices) ==
    \A i, j \in 1..Len(prices) : i # j => prices[i].element # prices[j].element

\* C13: the list detectPrices has returned holds at most one candidate per
\* element, whatever the scans matched.
C13_OneCandidatePerElement == NoRepeats(detectedPrices)

\* the text scan has given the box the match of a price that the selector
\* scan had found already, and passed it by for the other match
C13_BoxFoundByText ==
    /\ load = "box, shop"
    /\ Len(detectedPrices) = NSlots
    /\ detectedPrices[NSlots].element = 1
    /\ \A i \in 1..NSlots : detectedPrices[i].live

(***************************************************************************)
(* The converter                                                           *)
(***************************************************************************)
\* C14: calculateHours is null for a wage <= 0 and for a negative price,
\* and is price / wage for a price >= 0 and a wage > 0.
C14_CalculateHours ==
    call.fn = "calculateHours" =>
        /\ Leq(call.y, Whole(0)) => IsNull(call.num)
        /\ Less(call.x, Whole(0)) => IsNull(call.num)
        /\ (Leq(Whole(0), call.x) /\ Less(Whole(0), call.y))
              => call.num = Quotient(call.x, call.y)

\* a price of 40 at a wage of 20 is two hours
C14_FortyAtTwenty ==
    /\ call.fn = "calculateHours"
    /\ call.x = Whole(40) /\ call.y = Whole(20)
    /\ call.num = Whole(2)

\* C15: calculateHours is null, and so is the hours field of a conversion
\* result, when the price or the wage is NaN or an infinity.
C15_NonFiniteGivesNull ==
    /\ (call.fn = "calculateHours" /\ (~IsFinite(call.x) \/ ~IsFinite(call.y)))
          => IsNull(call.num)
    /\ call.fn = "convertPricesToHours"
          => \A i \in 1..Len(call.list) :
                (~IsFinite(call.list[i].price) \/ ~IsFinite(call.y))
                   => IsNull(call.list[i].hours)

\* the text of k half hours
HalfText(k) == IF k % 2 = 0 THEN ToString(k \div 2) ELSE ToString(k \div 2) \o ".5"

\* hours lies in [k/2 - 1/4, k/2 + 1/4)
InBucket(hours, k) ==
    Leq(Rat(2 * k - 1, 4), hours) /\ Less(hours, Rat(2 * k + 1, 4))

Ordered(settings) == settings.has /\ Leq(settings.green, settings.yellow)

ZeroBelowGreenTen ==
    /\ call.fn = "getTierColor"
    /\ IsZero(call.x)
    /\ call.settings.has
    /\ call.settings.green = Whole(10)
    /\ Leq(Whole(10), call.settings.yellow)
    /\ Leq(call.settings.yellow, call.settings.red)

\* C18, as the code has it: for value 0 and a green threshold of 10 (yellow
\* >= 10, red >= yellow) getTierColor returns "green".
C18_ZeroBelowGreenTenIsGreen == ZeroBelowGreenTen => call.str = "green"

\* C18, as stated: for value 0 and a green threshold of 10 (yellow >= 10,
\* red >= yellow) getTierColor returns "yellow".
C18_ZeroBelowGreenTenIsYellow == ZeroBelowGreenTen => call.str = "yellow"

\* the case has been applied and has given "green"
C18_ZeroClassified == ZeroBelowGreenTen /\ call.str = "green"

(***************************************************************************)
(* The tier settings that get stored                                       *)
(***************************************************************************)
\* 0 <= green <= yellow <= red
TierInvariant(settings) ==
    /\ Leq(Whole(0), settings.green)
    /\ Leq(settings.green, settings.yellow)
    /\ Leq(settings.yellow, settings.red)

\* C19: the tier settings in storage satisfy 0 <= green <= yellow <= red,
\* whether the popup or the storage helper wrote them.
C19_StoredTiersInOrder == tierSettings.has => TierInvariant(tierSettings)

(***************************************************************************)
(* The site classifier                                                     *)
(***************************************************************************)
\* what the classification of the addresses is to be
ShoppingAddresses ==
    {"https://www.amazon.com/dp/X", "https://WWW.EBAY.COM/itm/1",
     "https://example.com/Shop/item", "http://mystore.io",
     "https://notamazon.com.example.org/"}

\* the lower-cased hostname holds a listed domain, or it or the lower-cased
\* path holds a keyword
Listed(u) ==
    \/ \E site \in SHOPPING_SITES : Includes(toLowerCase(u.hostname), site)
    \/ \E keyword \in SHOPPING_KEYWORDS :
          \/ Includes(toLowerCase(u.hostname), keyword)
          \/ Includes(toLowerCase(u.pathname), keyword)

\* C20: isShoppingSite is true exactly for an address whose hostname holds
\* a listed domain or whose hostname or path holds one of the eight
\* keywords, and false for a text that is no address: true for
\* "https://www.amazon.com/dp/X", false for
\* "https://news.example.com/article" and "not a url".
C20_SiteClassified ==
    /\ Cardinality(SHOPPING_KEYWORDS) = 8
    /\ URL("https://www.amazon.com/dp/X") = ShopUrl
    /\ URL("https://news.example.com/article") = NewsUrl
    /\ call.fn = "isShoppingSite" =>
          /\ call.ok = (call.href \in ShoppingAddresses)
          /\ call.ok = (URL(call.href).valid /\ Listed(URL(call.href)))
          /\ ~URL(call.href).valid => ~call.ok

\* an address that only its path makes a shop, in capitals
C20_ShopInPath ==
    /\ call.fn = "isShoppingSite"
    /\ call.href = "https://example.com/Shop/item"
    /\ call.ok

(***************************************************************************)
(* The price detector                                                      *)
(***************************************************************************)
\* C21: isTimeValue takes hour/minute compounds ("2h 30m"), minutes with a
\* qualifier ("5 min remaining") and seconds ("30 seconds") for time values,
\* and a text of a currency symbol and a numeral only ("$19.99") for none.
C21_TimeValues ==
    call.fn = "isTimeValue" =>
        /\ call.str \in TimeTexts => call.ok
        /\ call.str \in CurrencyNumerals => ~call.ok

\* a compound inside a sentence, which only the patterns find
C21_CompoundInSentence ==
    /\ call.fn = "isTimeValue"
    /\ call.str = "Ships in 2h 30m"
    /\ call.ok

\* the element's class or id matches price, cost, amount or value, or it
\* carries data-price
PriceContext(element) ==
    /\ element # 0
    /\ \/ MatchesPriceWord(page[element].className)
       \/ MatchesPriceWord(page[element].id)
       \/ page[element].dataPrice

\* C22: parsePrice requires a currency symbol in the text: for a text
\* without one it returns null, unless an element is given whose class or
\* id matches price, cost, amount or value or which carries data-price;
\* "99" is null with an element without price class and 99 with one of
\* class "price".
C22_CurrencyRequired ==
    call.fn = "parsePrice" =>
        /\ (~HasCurrencySymbol(call.str) /\ ~PriceContext(call.element))
              => IsNull(call.num)
        /\ (load = "classes" /\ call.str = "99" /\ call.element = 2)
              => call.num = Whole(99)

\* a dot at position i of s that exactly three digits follow
ThousandsDot(s, i) ==
    /\ Char(s, i) = "."
    /\ i + 3 <= Len(s)
    /\ \A k \in 1..3 : IsDigit(Char(s, i + k))
    /\ i + 4 <= Len(s) => ~IsDigit(Char(s, i + 4))

\* s from position i on, without its thousands dots and with every comma
\* as a decimal point
RECURSIVE SeparatorsRead(_, _)
SeparatorsRead(s, i) ==
    IF i > Len(s) THEN ""
    ELSE (IF ThousandsDot(s, i) THEN ""
          ELSE IF Char(s, i) = "," THEN "."
          ELSE Char(s, i))
         \o SeparatorsRead(s, i + 1)

\* C23: parsePrice strips currency symbols, commas and white space, then
\* removes a "." as a thousands separator only when exactly three digits
\* follow it (a "." before one, two, four or more digits stays the decimal
\* point) and reads a "," that is left as the decimal point; "$1,234.56"
\* parses to 1234.56.
C23_SeparatorsNormalised ==
    (call.fn = "parsePrice" /\ call.str \in CurrencyNumerals) =>
        /\ ~IsNull(call.num)
              => call.num = parseFloat(SeparatorsRead(StripPriceChars(trim(call.str)), 1))
        /\ call.str = "$1,234.56" => call.num = Rat(123456, 100)

\* the element's class or id matches "price"
StrongContext(element) ==
    /\ element # 0
    /\ \/ Includes(ClassLower(element), "price")
       \/ Includes(IdLower(element), "price")

\* C24: every value parsePrice returns is a finite number in
\* [0, 10,000,000]; one below 0.01 or above 100,000 is returned only when
\* the text holds a currency symbol or the element's class or id matches
\* "price"; and every candidate of detectPrices has a price above 0.
C24_PriceInRange ==
    /\ (call.fn = "parsePrice" /\ ~IsNull(call.num)) =>
          /\ IsFinite(call.num)
          /\ Leq(Whole(0), call.num) /\ Leq(call.num, TenMillion)
          /\ (Less(call.num, Rat(1, 100)) \/ Less(Whole(100000), call.num))
                => (HasCurrencySymbol(call.str) \/ StrongContext(call.element))
    /\ call.fn = "detectPrices" =>
          \A i \in 1..Len(call.list) :
              IsFinite(call.list[i].price) /\ Less(Whole(0), call.list[i].price)

\* 200000 without a currency symbol, accepted for an element of class
\* "price"
C24_LargeWithPriceClass ==
    /\ call.fn = "parsePrice"
    /\ call.str = "200000"
    /\ StrongContext(call.element)
    /\ call.num = Whole(200000)

\* class, id or attribute name the element as a price, or its text holds a
\* currency symbol
StrongIndicator(D, element) ==
    \/ Includes(ClassLower(element), "price")
    \/ Includes(IdLower(element), "price")
    \/ page[element].dataPrice
    \/ HasCurrencySymbol(textContent(D, element))

\* the element is not hidden, and no time or deal word in its class, id or
\* text rules it out
PassesExclusions(D, element) ==
    /\ ~IsHiddenOrContainer(element)
    /\ \A pattern \in excludePatterns :
          (\/ Includes(ClassLower(element), pattern)
           \/ Includes(IdLower(element), pattern)
           \/ Includes(toLowerCase(textContent(D, element)), pattern))
             => HasPriceIndicator(element)

\* C30: isPriceElement rejects an element inside a navigation or sidebar
\* landmark only when its text reads as a time value and it lacks a strong
\* price indicator ("price" in class or id, data-price, or a currency
\* symbol in its text); with a strong indicator it is accepted even when
\* its text reads as a time value.
C30_SidebarPriceAccepted ==
    (/\ call.fn = "isPriceElement"
     /\ InSidebar(call.element)
     /\ PassesExclusions(dom, call.element)) =>
        (call.ok <=> ~(/\ isTimeValue(toLowerCase(textContent(dom, call.element)))
                       /\ ~StrongIndicator(dom, call.element)))

(***************************************************************************)
(* What a pass shows, and when                                             *)
(***************************************************************************)
\* C25: with the hourly wage set to 20 a detected $40 item is shown as
\* "2h 0m": its data-hours-formatted attribute and the text of its badge
\* are "2h 0m".
C25_FortyShownAsTwoHoursZero ==
    \A s \in Slots :
        (/\ dom[s].present
         /\ dom[s].attrs.priceValue = NumberAttr(Whole(40))
         /\ dom[s].attrs.hoursValue = NumberAttr(Whole(2)))
        => /\ dom[s].attrs.hoursFormatted = "2h 0m"
           /\ (Ref(s) \in injectedBadges /\ dom[s].badges # <<>>)
                 => dom[s].badges[1] = "2h 0m"

\* the control messages whose effect shows in the document
ControlRequests ==
    {Request("setActive", "", FALSE), Request("setShowHours", "", FALSE),
     Request("setDisplayMode", "replace", FALSE),
     Request("setDisplayMode", "side-by-side", FALSE)}

\* removeBadges has run: no badge is left, no replacement stands
ResetApplied == ~SomeBadge /\ injectedBadges = {} /\ replacedPrices = <<>>

\* what the request asks for has been done: the reset, or the reset and
\* then nothing but the presentation of the requested mode
EffectApplied(request) ==
    IF request.action = "setDisplayMode"
    THEN IF request.mode = "replace" THEN ~SomeBadge /\ injectedBadges = {}
         ELSE replacedPrices = <<>>
    ELSE ResetApplied

\* C26: setActive, setDisplayMode and setShowHours are synchronous in
\* effect: when the content script sends its success response, the reset,
\* or the reset and the new presentation in the requested mode, has been
\* applied to the document.
C26_EffectBeforeResponse ==
    [][\A request \in ControlRequests :
          OnMessage(request) => (lastResponse.success /\ EffectApplied(request))']_vars

\* the candidates that are in the document
AttachedCandidates ==
    {detectedPrices[i].element : i \in {j \in 1..Len(detectedPrices) :
        detectedPrices[j].live /\ dom[detectedPrices[j].element].present}}

\* C27: in side-by-side mode a new badge is inserted as the sibling right
\* after its price element, and the pass changes neither the text nor the
\* descendants of any candidate element, also when one candidate is an
\* ancestor of another.
C27_SideBySideKeepsCandidates ==
    [][(tasks["mode"] > 0 /\ tasks' = Finish(tasks, "mode")
            /\ displayMode' = "side-by-side")
        => /\ \A s \in Slots :
                 Len(dom'[s].badges) > Len(dom[s].badges)
                    => /\ Ref(s) \in injectedBadges'
                       /\ Tail(dom'[s].badges) = dom[s].badges
           /\ \A element \in AttachedCandidates :
                 /\ textContent(dom', element) = textContent(dom, element)
                 /\ innerHTML(dom', element) = innerHTML(dom, element)]_vars

\* an element as a snapshot holds it shows nothing the extension wrote
Untouched(state, s) ==
    state.present =>
        /\ ~state.over
        /\ state.attrs.replaced = NoAttr
        /\ state.style = page[s].style
        /\ state.badges = <<>>

\* the snapshot of a replaced element holds the host page's content
OriginalSnapshot(entry) ==
    /\ ~entry.original.innerHTML.over
    /\ entry.original.backgroundColor = page[entry.element].style.backgroundColor
    /\ entry.original.padding = page[entry.element].style.padding
    /\ entry.original.borderRadius = page[entry.element].style.borderRadius
    /\ \A c \in Descendants(entry.element) :
          Untouched(entry.original.innerHTML.sub[c], c)

\* C28: the snapshot of replace mode is taken once: while an element is a
\* key of replacedPrices its snapshot stays as it is, and it holds the
\* element's text and HTML from before the extension changed anything
\* below the element: no hours text, no replaced flag, no styling of its
\* own.
C28_SnapshotTakenOnce ==
    [][/\ \A i \in 1..Len(replacedPrices) : \A j \in 1..Len(replacedPrices') :
             (/\ replacedPrices[i].live /\ replacedPrices'[j].live
              /\ replacedPrices[i].element = replacedPrices'[j].element)
             => replacedPrices'[j].original = replacedPrices[i].original
       /\ \A j \in 1..Len(replacedPrices') : OriginalSnapshot(replacedPrices'[j])]_vars

\* a pass has come to its end: processPage returns, after injectBadges or
\* before it
PassCompletes ==
    \/ tasks["wage"] > 0 /\ tasks' = Finish(tasks, "wage")
    \/ tasks["mode"] > 0 /\ tasks' = Finish(tasks, "mode")

\* every key of the two maps is an element of the document
KeysAttached ==
    /\ \A b \in injectedBadges : b.live /\ dom[b.element].present
    /\ \A i \in 1..Len(replacedPrices) :
          replacedPrices[i].live /\ dom[replacedPrices[i].element].present

\* C29: after each completed pass every key of injectedBadges and of
\* replacedPrices is attached to the document: an entry whose element the
\* host page has detached is removed by the next pass, also by one that
\* detects no prices.
C29_KeysAttachedAfterPass == [][PassCompletes => KeysAttached']_vars

(***************************************************************************)
(* The thresholds getTierColor reads                                       *)
(***************************************************************************)
\* red thresholds: none, below green, between the others, above yellow
RedThresholds == {NULL, Whole(0 - 5), Whole(0), Whole(3), Whole(20), Whole(100), Infinity}

WageValues ==
    WagePayloads \cup
    {[type |-> "number", v |-> Rat(1, 2)], [type |-> "number", v |-> Whole(10001)],
     [type |-> "number", v |-> Infinity], [type |-> "number", v |-> NegInfinity]}

\* what the user can type into the popup's wage field
WageTexts == {"20", "0", "-5", "abc", "0.5", "10001", "Infinity", " 25 "}

\* the service worker's storage.onChanged listener, for the key hourlyWage
WageChanged(changed) ==
    /\ Len(inbox) + (IF changed THEN 1 ELSE 0) <= MaxInbox
    /\ inbox' = inbox \o (IF changed THEN <<Request("reprocess", "", FALSE)>> ELSE <<>>)

\* what is left alone when the wage is stored from outside the tab
wageFrame == <<load, events, lastResponse, contentVars, popupVars>>

\* setHourlyWage(wage) of scripts/storage.js; failed: storage.local.set
\* rejected
setHourlyWage(wage, failed) ==
    /\ IF InvalidWage(wage) \/ failed
       THEN UNCHANGED <<storage, inbox>>
       ELSE /\ storage' = [storage EXCEPT !.hourlyWage = wage.v]
            /\ WageChanged(storage.hourlyWage # wage.v)
    /\ call' = [Applied("setHourlyWage") EXCEPT
                   !.x = wage.v, !.str = wage.type,
                   !.ok = ~(InvalidWage(wage) \/ failed)]
    /\ UNCHANGED wageFrame

StorageSetHourlyWage ==
    \E wage \in WageValues, failed \in BOOLEAN : setHourlyWage(wage, failed)

\* validateWage(value) of the popup
validateWage(value) ==
    LET numValue == parseFloat(value)
    IN  ~(IsNull(numValue) \/ Leq(numValue, Whole(0)) \/ Less(Whole(10000), numValue))

\* handleSave() of the popup with this text in the wage field, up to the
\* setWage message it sends to the service worker after a successful save;
\* the popup's own setHourlyWage stores what it is given
handleSave(text, failed) ==
    /\ IF ~validateWage(trim(text)) \/ failed
       THEN UNCHANGED <<storage, inbox>>
       ELSE /\ storage' = [storage EXCEPT !.hourlyWage = parseFloat(trim(text))]
            /\ WageChanged(storage.hourlyWage # parseFloat(trim(text)))
    /\ call' = [Applied("handleSave") EXCEPT
                   !.str = text, !.ok = validateWage(trim(text)) /\ ~failed]
    /\ UNCHANGED wageFrame

PopupSavesWage == \E text \in WageTexts, failed \in BOOLEAN : handleSave(text, failed)

\* the setWage handler of the service worker, for any wage
SetWageRequest == \E wage \in WageValues : SetWage(wage)

\* chrome.tabs.sendMessage rejects: the tab has gone, the handler ignores it
MessageLost ==
    /\ inbox # <<>>
    /\ inbox' = Tail(inbox)
    /\ UNCHANGED <<load, events, storage, lastResponse, contentVars, popupVars, call>>

NextWage ==
    \/ StorageSetHourlyWage
    \/ PopupSavesWage
    \/ SetWageRequest
    \/ MessageLost

SpecWage == IdleTab /\ [][NextWage]_vars

\* the stored wage is a number that is not negative
WageStored == ~IsNull(storage.hourlyWage) /\ ~Less(storage.hourlyWage, Whole(0))

\* a value that the handler or the helper rejects leaves the stored wage
\* as it is
RejectedWageKept ==
    \A wage \in WageValues :
        /\ (SetWage(wage) /\ ~lastResponse'.success) => UNCHANGED storage
        /\ \A failed \in BOOLEAN :
              (setHourlyWage(wage, failed) /\ ~call'.ok) => UNCHANGED storage

\* C32: the stored hourly wage is always a non-negative number: after any
\* sequence of setWage messages to the service worker and of setHourlyWage
\* calls of the storage helper the value under hourlyWage is never negative
\* and never NaN, and a rejected value leaves the stored wage unchanged.
C32_StoredWageNonNegative == []WageStored /\ [][RejectedWageKept]_vars

\* a negative wage is rejected while a wage of 20 is stored
C32_NegativeRejected ==
    /\ call.fn = "setHourlyWage"
    /\ call.x = Whole(0 - 5)
    /\ ~call.ok
    /\ storage.hourlyWage = Whole(20)
    /\ lastResponse = [from |-> "worker", success |-> FALSE]

(***************************************************************************)
(* Observers, deactivation and what later passes keep                      *)
(***************************************************************************)
\* C35: at most one MutationObserver is ever installed on the document,
\* for any sequence and interleaving of init calls, reprocess messages and
\* setActive messages.
C35_OneObserver == observers <= 1

\* the detection and conversion attributes of an element
DetectionAttrs(state) == [state.attrs EXCEPT !.replaced = NoAttr]

\* this step adds a badge to the document, replaces the text of a price or
\* writes a detection attribute to an element
ToolWrites ==
    \E s \in Slots :
        \/ Len(dom'[s].badges) > Len(dom[s].badges)
        \/ /\ dom'[s].present
           /\ dom'[s].attrs.replaced = "true"
           /\ dom[s].attrs.replaced # "true"
        \/ /\ dom[s].present /\ dom'[s].present
           /\ DetectionAttrs(dom'[s]) # NoToolAttrs
           /\ DetectionAttrs(dom'[s]) # DetectionAttrs(dom[s])

\* C34: once setActive(false) has been handled the extension adds no badge,
\* replaces no price and writes no detection attribute until setActive(true)
\* is handled, also when a pass was suspended at a storage await at the
\* time of the deactivation, and when a reprocess message or a debounce
\* timer comes afterwards.
C34_NoWritesWhileDeactivated == [][(deactivated /\ deactivated') => ~ToolWrites]_vars

\* the element of slot s is among the candidates of the last detection
IsCandidate(s) ==
    \E i \in 1..Len(detectedPrices) :
        detectedPrices[i].element = s /\ detectedPrices[i].live

\* replace mode, show-hours on and a wage above zero, stored and in use,
\* and the candidate list is what detection finds in the document
ReplaceModeStands ==
    /\ displayMode = "replace" /\ storage.displayMode = "replace"
    /\ showHours /\ storage.showHours
    /\ Less(Whole(0), storage.hourlyWage)
    /\ detectedPrices = detectPrices(dom)

\* injectBadges resets the document and goes on to replace the candidates
ResetBeforeReplace == tasks["show"] > 0 /\ tasks' = Move(tasks, "show", "mode")

\* C36: in replace mode with show-hours on and a wage above zero, an
\* element that a pass has replaced with hours stays replaced (flag set,
\* hours shown) after every later pass while it stays attached and mode,
\* flag and wage stay as they are, also when the later pass detects prices
\* added elsewhere: the reset of a later pass restores the element only if
\* it is a candidate of that pass, which the pass then replaces again.
C36_ReplacedStaysReplaced ==
    [][\A s \in Slots :
          (/\ ReplaceModeStands
           /\ ResetBeforeReplace
           /\ dom[s].present /\ dom[s].attrs.replaced = "true"
           /\ dom'[s].present /\ dom'[s].attrs.replaced # "true")
          => IsCandidate(s)]_vars

\* every element of the document that bears data-price-replaced="true" is a
\* key of replacedPrices
FlaggedAreKeys ==
    \A s \in Slots :
        (dom[s].present /\ dom[s].attrs.replaced = "true") => HasReplaced(World, s)

\* a step in which removeBadges runs
ResetRuns ==
    \/ \E failed \in BOOLEAN : InjectBadgesWithShowHours(failed)
    \/ OnMessage(Request("setActive", "", FALSE))

\* no element of the document bears the replaced flag or shows a text
\* written in place of its own
NothingReplaced ==
    \A s \in Slots : dom[s].present => (dom[s].attrs.replaced = NoAttr /\ ~dom[s].over)

\* C37: every attached element that bears data-price-replaced="true" is a
\* key of replacedPrices, so that a later reset restores it: when
\* removeBadges has run, no attached element bears the replaced flag or
\* shows hours in place of its price, also after the host page has detached
\* elements and with nested candidates.
C37_ReplacedFlagTracked == []FlaggedAreKeys /\ [][ResetRuns => NothingReplaced']_vars

\* every badge of the document follows an element of the candidate list and
\* shows the hours the last conversion gave for it
BadgesCurrent ==
    \A s \in Slots : \A k \in 1..Len(dom[s].badges) :
        \E i \in 1..Len(detectedPrices) :
            /\ detectedPrices[i].element = s /\ detectedPrices[i].live
            /\ i <= Len(conversions)
            /\ dom[s].badges[k] = conversions[i].formatted

\* processPage returns because the wage it has read from storage is not
\* above zero
ReturnsWithoutWage ==
    /\ ProcessPageWithWage(FALSE)
    /\ Leq(storage.hourlyWage, Whole(0))

\* C38: when a pass ends, also one that returns early because the wage read
\* is not above zero or because no price was detected, every badge in the
\* document belongs to an element of the current candidate list and shows
\* that element's formatted hours at the wage last read from storage; no
\* badge survives for a wage or a candidate that is no longer current.
C38_BadgesCurrentAfterPass ==
    [][/\ PassCompletes => BadgesCurrent'
       /\ ReturnsWithoutWage => ~SomeBadge']_vars

(***************************************************************************)
(* The candidates of a detection                                           *)
(***************************************************************************)
\* C31: every candidate that detectPrices returns passes both checks: its
\* element satisfies isPriceElement and its originalText is not a time
\* value for isTimeValue; no badge of the extension, and nothing inside
\* one, is ever a candidate: the candidates are elements of the host page,
\* and none of them has the text of a badge for its originalText.
C31_CandidatesPassBothChecks ==
    call.fn = "detectPrices" =>
        \A i \in 1..Len(call.list) :
            /\ call.list[i].element \in Slots
            /\ isPriceElement(dom, call.list[i].element)
            /\ ~isTimeValue(call.list[i].originalText)
            /\ \A s \in Slots : \A k \in 1..Len(dom[s].badges) :
                  dom[s].badges[k] # call.list[i].originalText

\* a detection on the page with the deal timer, after a pass has put a
\* badge into it: the box is the one candidate, the timer and the hidden
\* price are none
C31_BoxBesideDealTimer ==
    /\ call.fn = "detectPrices"
    /\ load = "deal"
    /\ SomeBadge
    /\ Len(call.list) = 1
    /\ call.list[1].element = 1
    /\ ~isPriceElement(dom, 2)
    /\ ~isPriceElement(dom, 3)

(***************************************************************************)
(* Quiescence                                                              *)
(***************************************************************************)
\* The browser answers every storage read, delivers every message it has
\* accepted, lets time pass while a timer waits, and runs a timer whose
\* delay is over.  A call suspended at await a can be resumed exactly while
\* tasks[a] > 0; for three of the steps weak fairness is written with that
\* condition in the place of ENABLED.
Scheduling ==
    /\ WF_vars(InitAfterDisplayMode)
    /\ []<>(tasks["init_show"] = 0) \/ []<><<InitAfterShowHours>>_vars
    /\ WF_vars(InitAfterWage)
    /\ []<>(tasks["wage"] = 0) \/ []<><<ProcessPageAfterWage>>_vars
    /\ WF_vars(InjectBadgesAfterShowHours)
    /\ []<>(tasks["mode"] = 0) \/ []<><<InjectBadgesAfterDisplayMode>>_vars
    /\ WF_vars(Deliver)
    /\ WF_vars(Tick)
    /\ WF_vars(TimerFires)

SpecLive == Init /\ [][Next]_vars /\ Scheduling

\* no timer is pending and no async function of the content script is
\* suspended
Quiet == timers = <<>> /\ NumTasks(tasks) = 0

\* C33: once the host page makes no more mutations and no more messages
\* come in (both stop after MaxEvents), the content script comes to rest in
\* either display mode and stays at rest: no debounce timer is pending and
\* no pass is in progress, so its own writes to the document do not keep
\* setting the observer's timer again.
C33_Quiesces == <>[]Quiet
====
